---- MODULE Spec2Model ----
(***************************************************************************)
(* Routify: static discovery of HTTP routes in JavaScript/TypeScript       *)
(* sources.  The module models the route extraction engine: the path and   *)
(* parameter utilities (ast-utils.ts), call-site discovery                 *)
(* (ast-analyzer.ts), the Express and NestJS parsers and the per-file      *)
(* dispatch of the workspace scanner.                                      *)
(*                                                                         *)
(* A JavaScript string is a sequence of one-character strings.  A syntax   *)
(* tree node is a record with a "type" field named as @babel/types names   *)
(* it.  A source file is given by its syntax tree; its text, which the     *)
(* classifiers read, is the token sequence the tree prints to.             *)
(***************************************************************************)
EXTENDS Integers, Sequences, FiniteSets, TLC

VARIABLES file, pc, expressCan, methodCalls, expressResult, nestCan, nestResult, scanned,
          scanThrew, files, index, folderRoutes, utilCall, returned,
          disk, pendingTimers, isScanning, snapshot, shown, timerCalls, bursts,
          directScans, statusText, treeRoutes, lensRoutes, groupMode, filterMethod,
          currentPanel, panelsMade, panelRoute, requests, lastPost

\* one file taken through both parsers and scanFile
fileVars == <<file, expressCan, methodCalls, expressResult, nestCan, nestResult, scanned,
              scanThrew>>
\* scanFolder over a list of files
folderVars == <<files, index, folderRoutes>>
\* one call of a utility function
callVars == <<utilCall, returned>>
\* the extension: file watcher, debounce timers, scanWorkspace and the scans
\* the commands start themselves
watchVars == <<disk, pendingTimers, isScanning, snapshot, shown, timerCalls, bursts,
               directScans, statusText>>
\* the tree provider and the CodeLens provider
providerVars == <<treeRoutes, lensRoutes, groupMode, filterMethod>>
\* the request panel
panelVars == <<currentPanel, panelsMade, panelRoute, requests, lastPost>>

vars == <<pc, fileVars, folderVars, callVars, watchVars, providerVars, panelVars>>

----------------------------------------------------------------------------
(* Bounds of the model.                                                    *)

\* longest path string of an Express route call
MaxPathLen == 3
\* longest controller prefix and method path fragment of a NestJS route
MaxFragLen == 2
\* most arguments after the path in an Express route call
MaxArgs == 3
\* most files of a folder
MaxFiles == 3
\* longest prefix and fragment given to combinePaths itself
MaxPieceLen == 3
\* most interpolated expressions of a template literal
MaxExprs == 2
\* most property accesses of a member chain
MaxChain == 2
\* most file change, create and delete events the watcher reports
MaxEvents == 4
\* most include patterns, and most exclude patterns, of the configuration
MaxPatterns == 2
\* commands scanning by themselves at one time
MaxDirect == 2
\* RequestPanel objects created
MaxPanels == 2
\* requests of the panel in flight at one time
MaxRequests == 2

----------------------------------------------------------------------------
(* Characters and strings.                                                 *)

Slash == "/"
Colon == ":"
Quotes == {"'", "\""}
Letters == {"a", "b", "m", "p", "r"}
Digits == {"1"}
IdStart == Letters \cup {"_"}
IdCont == IdStart \cup Digits

\* the characters path strings are drawn from
Alphabet == {Slash, Colon, "a", "b", "'", "?"}

\* the characters controller prefixes are drawn from
PrefixAlphabet == {Slash, Colon, "a"}

\* sequences over S of length at most n
RECURSIVE SeqsUpTo(_, _)
SeqsUpTo(S, n) ==
    IF n = 0 THEN {<<>>}
    ELSE LET shorter == SeqsUpTo(S, n - 1)
         IN shorter \cup {Append(s, x) : s \in {t \in shorter : Len(t) = n - 1}, x \in S}

Last(s) == s[Len(s)]
Front(s) == SubSeq(s, 1, Len(s) - 1)

\* the "no value" of extractStringValue; no string, since "null" is no character
Null == <<"null">>

\* JavaScript truthiness of a string or null
Truthy(s) == s # Null /\ s # <<>>

----------------------------------------------------------------------------
(* ast-utils.ts: normalizePath                                             *)

\* path.replace(/['"]/g, "")
RECURSIVE RemoveQuotes(_)
RemoveQuotes(s) ==
    IF s = <<>> THEN <<>>
    ELSE IF Head(s) \in Quotes THEN RemoveQuotes(Tail(s))
    ELSE <<Head(s)>> \o RemoveQuotes(Tail(s))

\* if (!path.startsWith("/")) path = "/" + path
EnsureLeadingSlash(s) ==
    IF s # <<>> /\ Head(s) = Slash THEN s ELSE <<Slash>> \o s

\* path.replace(/\/+/g, "/")
RECURSIVE CollapseSlashes(_)
CollapseSlashes(s) ==
    IF Len(s) < 2 THEN s
    ELSE IF s[1] = Slash /\ s[2] = Slash THEN CollapseSlashes(Tail(s))
    ELSE <<Head(s)>> \o CollapseSlashes(Tail(s))

\* if (path.length > 1 && path.endsWith("/")) path = path.slice(0, -1)
StripTrailingSlash(s) ==
    IF Len(s) > 1 /\ Last(s) = Slash THEN Front(s) ELSE s

\* the trailing "/" stripped before the runs of "/" are collapsed
normalizePath_StripBeforeCollapse(path) ==
    CollapseSlashes(StripTrailingSlash(EnsureLeadingSlash(RemoveQuotes(path))))

normalizePath(path) ==
    StripTrailingSlash(CollapseSlashes(EnsureLeadingSlash(RemoveQuotes(path))))

----------------------------------------------------------------------------
(* ast-utils.ts: extractRouteParams, and the NestJS parser's own           *)

\* length of the longest run of identifier characters of s from position i
RECURSIVE IdRun(_, _)
IdRun(s, i) ==
    IF i <= Len(s) /\ s[i] \in IdCont THEN 1 + IdRun(s, i + 1) ELSE 0

\* a match of /:([a-zA-Z_][a-zA-Z0-9_]*)/ starts at position i of s
TokenAt(s, i) ==
    i < Len(s) /\ s[i] = Colon /\ s[i + 1] \in IdStart

Param(name, required) == [name |-> name, type |-> "path", required |-> required]

\* the matches of /:([a-zA-Z_][a-zA-Z0-9_]*)/g from position i on: required: true
RECURSIVE ParamsFrom(_, _)
ParamsFrom(s, i) ==
    IF i > Len(s) THEN <<>>
    ELSE IF TokenAt(s, i)
         THEN LET n == IdRun(s, i + 1)
              IN <<Param(SubSeq(s, i + 1, i + n), TRUE)>> \o ParamsFrom(s, i + 1 + n)
         ELSE ParamsFrom(s, i + 1)

extractRouteParams(path) == ParamsFrom(path, 1)

\* the matches of /:([a-zA-Z_][a-zA-Z0-9_]*)(\?)?/g: required: !match[2]
RECURSIVE NestParamsFrom(_, _)
NestParamsFrom(s, i) ==
    IF i > Len(s) THEN <<>>
    ELSE IF TokenAt(s, i)
         THEN LET n == IdRun(s, i + 1)
                  opt == i + 1 + n <= Len(s) /\ s[i + 1 + n] = "?"
              IN <<Param(SubSeq(s, i + 1, i + n), ~opt)>>
                     \o NestParamsFrom(s, i + 1 + n + (IF opt THEN 1 ELSE 0))
         ELSE NestParamsFrom(s, i + 1)

NestExtractRouteParams(path) == NestParamsFrom(path, 1)

----------------------------------------------------------------------------
(* Syntax tree nodes, as @babel/types shapes them.                         *)

Id(n) == [type |-> "Identifier", name |-> n]
Str(v) == [type |-> "StringLiteral", value |-> v]
Tmpl(q, e) == [type |-> "TemplateLiteral", quasis |-> q, expressions |-> e]
Member(o, p) == [type |-> "MemberExpression", object |-> o, property |-> Id(p)]
Call(c, a) == [type |-> "CallExpression", callee |-> c, arguments |-> a]
\* id is "" for a function literal without a name
Func(n) == [type |-> "FunctionExpression", id |-> n]
Arrow == [type |-> "ArrowFunctionExpression"]
Obj == [type |-> "ObjectExpression"]
Arr(e) == [type |-> "ArrayExpression", elements |-> e]
This == [type |-> "ThisExpression"]
Declarator(n, i) == [type |-> "VariableDeclarator", id |-> Id(n), init |-> i]
ClassMethod(k, d) == [type |-> "ClassMethod", key |-> Id(k), decorators |-> d]
\* id is "" for a class declaration without a name (export default class {})
ClassDecl(n, d, b) == [type |-> "ClassDeclaration", id |-> n, decorators |-> d, body |-> b]

\* JavaScript null where a name is expected; no identifier is named null
NoName == "null"
\* filterMethod when no filter is set
NoFilter == "undefined"
\* before the first call of postMessage
NoPost == [command |-> "none"]

\* the characters of an identifier name
Chars(n) ==
    CASE n = "a" -> <<"a">>
      [] n = "b" -> <<"b">>
      [] n = "ab" -> <<"a", "b">>
      [] OTHER -> <<"a", "_">>

\* String.prototype.toUpperCase on the method names of the model
ToUpperCase(m) ==
    CASE m = "get" -> "GET"
      [] m = "post" -> "POST"
      [] m = "put" -> "PUT"
      [] m = "delete" -> "DELETE"
      [] m = "patch" -> "PATCH"
      [] m = "options" -> "OPTIONS"
      [] m = "head" -> "HEAD"
      [] m = "all" -> "ALL"
      [] m = "use" -> "USE"
      [] m = "listen" -> "LISTEN"
      [] OTHER -> m

----------------------------------------------------------------------------
(* utils/constants.ts and models/route.ts                                  *)

HTTP_METHODS == {"GET", "POST", "PUT", "DELETE", "PATCH", "OPTIONS", "HEAD"}

\* the type HttpMethod
HttpMethod == {"GET", "POST", "PUT", "DELETE", "PATCH", "OPTIONS", "HEAD", "ALL"}

EXPRESS_ROUTER_OBJECTS == {"app", "router"}

EXPRESS_METHOD_NAMES ==
    {"get", "post", "put", "delete", "patch", "options", "head", "all"}

----------------------------------------------------------------------------
(* ast-utils.ts: literal and name extraction                               *)

\* every interpolated expression written as the generic placeholder
Placeholder_Generic(expr) == <<Colon, "p", "a", "r", "a", "m">>

\* the placeholder of one interpolated expression
Placeholder(expr) ==
    IF expr.type = "Identifier" THEN <<Colon>> \o Chars(expr.name)
    ELSE <<Colon, "p", "a", "r", "a", "m">>

RECURSIVE TemplateFrom(_, _)
TemplateFrom(node, i) ==
    IF i > Len(node.quasis) THEN <<>>
    ELSE node.quasis[i]
             \o (IF i <= Len(node.expressions)
                 THEN Placeholder(node.expressions[i]) ELSE <<>>)
             \o TemplateFrom(node, i + 1)

reconstructTemplateLiteral(node) == TemplateFrom(node, 1)

extractStringValue(node) ==
    IF node.type = "StringLiteral" THEN node.value
    ELSE IF node.type = "TemplateLiteral" THEN reconstructTemplateLiteral(node)
    ELSE Null

\* the names collected by the loop of extractMemberExpressionName, root first
RECURSIVE MemberParts(_)
MemberParts(node) ==
    IF node.type = "Identifier" THEN <<node.name>>
    ELSE IF node.type = "MemberExpression"
         THEN MemberParts(node.object)
                  \o (IF node.property.type = "Identifier"
                      THEN <<node.property.name>> ELSE <<>>)
    ELSE <<>>

\* parts.join(".")
RECURSIVE Join(_)
Join(parts) ==
    IF parts = <<>> THEN ""
    ELSE IF Len(parts) = 1 THEN parts[1]
    ELSE parts[1] \o "." \o Join(Tail(parts))

extractMemberExpressionName(node) == Join(MemberParts(node))

extractName(node) ==
    IF node.type = "Identifier" THEN node.name
    ELSE IF node.type = "MemberExpression" THEN extractMemberExpressionName(node)
    ELSE IF node.type = "FunctionExpression"
         THEN (IF node.id # "" THEN node.id ELSE "anonymous")
    ELSE IF node.type = "ArrowFunctionExpression" THEN "anonymous"
    ELSE "unknown"

----------------------------------------------------------------------------
(* ast-analyzer.ts: call-site discovery                                    *)

RECURSIVE extractObjectName(_)
extractObjectName(node) ==
    IF node.type = "Identifier" THEN node.name
    ELSE IF node.type = "MemberExpression" THEN extractObjectName(node.object)
    ELSE NoName

\* the CallExpression nodes traverse() visits below a node, in source order
RECURSIVE CallsIn(_)
RECURSIVE CallsInAll(_)
CallsIn(node) ==
    IF node.type = "CallExpression"
    THEN <<node>> \o CallsIn(node.callee) \o CallsInAll(node.arguments)
    ELSE IF node.type = "MemberExpression" THEN CallsIn(node.object)
    ELSE IF node.type = "ArrayExpression" THEN CallsInAll(node.elements)
    ELSE <<>>
CallsInAll(nodes) ==
    IF nodes = <<>> THEN <<>> ELSE CallsIn(Head(nodes)) \o CallsInAll(Tail(nodes))

\* every CallExpression of a file: the declarators' initializers, then the
\* expression statements
CallExpressions(ast) ==
    CallsInAll([i \in 1..Len(ast.decls) |-> ast.decls[i].init]) \o CallsInAll(ast.calls)

\* the visitor's test of one CallExpression
IsMethodCall(node, objectNames, methodNames) ==
    /\ node.callee.type = "MemberExpression"
    /\ node.callee.property.type = "Identifier"
    /\ node.callee.property.name \in methodNames
    /\ extractObjectName(node.callee.object) # NoName
    /\ extractObjectName(node.callee.object) \in objectNames

MethodCallInfo(node) ==
    [objectName |-> extractObjectName(node.callee.object),
     methodName |-> node.callee.property.name,
     arguments |-> node.arguments,
     node |-> node]

findMethodCalls(ast, objectNames, methodNames) ==
    LET all == CallExpressions(ast)
        hit == SelectSeq(all, LAMBDA n : IsMethodCall(n, objectNames, methodNames))
    IN [i \in 1..Len(hit) |-> MethodCallInfo(hit[i])]

----------------------------------------------------------------------------
(* parsers/base-parser.ts and parsers/express-parser.ts                    *)

isHttpMethod(method) == ToUpperCase(method) \in HTTP_METHODS

IsHandlerNode(arg) ==
    arg.type \in {"FunctionExpression", "ArrowFunctionExpression",
                  "Identifier", "MemberExpression"}

\* the last argument taken, whatever it is
HandlerIndex_Last(args) == Len(args)

\* the index (from 1) of the argument findHandlerNode returns: the last one
\* after the path that can be a handler, the last argument when none can
HandlerIndex(args) ==
    LET ok == {i \in 2..Len(args) : IsHandlerNode(args[i])}
    IN IF ok # {} THEN CHOOSE i \in ok : \A j \in ok : j <= i ELSE Len(args)

findHandlerNode(args) == args[HandlerIndex(args)]

\* the names one argument adds to the middleware list
RECURSIVE ElementNames(_)
ElementNames(elements) ==
    IF elements = <<>> THEN <<>>
    ELSE (IF Head(elements).type = "Identifier" THEN <<Head(elements).name>>
          ELSE IF Head(elements).type = "MemberExpression"
               THEN <<extractMemberExpressionName(Head(elements))>>
          ELSE <<>>) \o ElementNames(Tail(elements))

MiddlewareOf(arg) ==
    IF arg.type = "Identifier" THEN <<arg.name>>
    ELSE IF arg.type = "MemberExpression" THEN <<extractMemberExpressionName(arg)>>
    ELSE IF arg.type = "ArrayExpression" THEN ElementNames(arg.elements)
    ELSE <<>>

\* the loop of extractMiddleware over args[i], ..., args[last]
RECURSIVE MiddlewareFrom(_, _, _)
MiddlewareFrom(args, i, last) ==
    IF i > last THEN <<>>
    ELSE MiddlewareOf(args[i]) \o MiddlewareFrom(args, i + 1, last)

\* for (let i = 1; i < args.length - 1; i++), indices from 0
extractMiddleware(args) == MiddlewareFrom(args, 2, Len(args) - 1)

\* a property whose value is undefined is left out of the record
Optional(field, value) ==
    IF value # <<>> THEN [f \in {field} |-> value] ELSE <<>>

\* a one-element sequence holding the route, the empty sequence for null
parseExpressRoute(call) ==
    LET args == call.arguments
        path == extractStringValue(args[1])
    IN IF ~isHttpMethod(call.methodName) THEN <<>>
       ELSE IF Len(args) = 0 THEN <<>>
       ELSE IF ~Truthy(path) THEN <<>>
       ELSE <<[method |-> ToUpperCase(call.methodName),
               path |-> normalizePath(path),
               handler |-> extractName(findHandlerNode(args)),
               framework |-> "express",
               source |-> call.node]
              @@ Optional("middleware", extractMiddleware(args))
              @@ Optional("params", extractRouteParams(path))>>

IsRouterDeclarator(d) ==
    /\ d.id.type = "Identifier"
    /\ d.init.type = "CallExpression"
    /\ d.init.callee.type = "MemberExpression"
    /\ d.init.callee.property.type = "Identifier"
    /\ d.init.callee.property.name = "Router"

\* every variable initialized by a call, whatever is called
findRouterVariables_AnyCall(ast) ==
    {ast.decls[i].id.name : i \in {j \in 1..Len(ast.decls) :
                                      ast.decls[j].init.type = "CallExpression"}}

findRouterVariables(ast) ==
    {ast.decls[i].id.name : i \in {j \in 1..Len(ast.decls) : IsRouterDeclarator(ast.decls[j])}}

RECURSIVE Flatten(_)
Flatten(seqs) ==
    IF seqs = <<>> THEN <<>> ELSE Head(seqs) \o Flatten(Tail(seqs))

\* whether parseToAST throws: @babel/parser recovers from most syntax errors
\* under errorRecovery and throws on the rest
ParseThrows(f) == f.syntax = "fatal"

ParseErrorEntry == [message |-> "Parse error", line |-> 0, column |-> 0]

\* steps 1 to 3 of parse: the method calls on the routing objects of a file
ExpressMethodCalls(f) ==
    findMethodCalls(f, EXPRESS_ROUTER_OBJECTS \cup findRouterVariables(f),
                    EXPRESS_METHOD_NAMES)

ExpressParse(f) ==
    IF ParseThrows(f)
    THEN [routes |-> <<>>, framework |-> "express", errors |-> <<ParseErrorEntry>>]
    ELSE LET calls == ExpressMethodCalls(f)
         IN [routes |-> Flatten([i \in 1..Len(calls) |-> parseExpressRoute(calls[i])]),
             framework |-> "express",
             errors |-> <<>>]

----------------------------------------------------------------------------
(* parsers/nestjs-parser.ts                                                *)

NESTJS_METHOD_DECORATORS ==
    {"Get", "Post", "Put", "Delete", "Patch", "Options", "Head", "All"}

NESTJS_CONTROLLER_DECORATOR == "Controller"

\* the table without its last entry: All falls to the default
mapDecoratorToHttpMethod_NoAll(decoratorName) ==
    CASE decoratorName = "Get" -> "GET"
      [] decoratorName = "Post" -> "POST"
      [] decoratorName = "Put" -> "PUT"
      [] decoratorName = "Delete" -> "DELETE"
      [] decoratorName = "Patch" -> "PATCH"
      [] decoratorName = "Options" -> "OPTIONS"
      [] decoratorName = "Head" -> "HEAD"
      [] OTHER -> "GET"

mapDecoratorToHttpMethod(decoratorName) ==
    CASE decoratorName = "Get" -> "GET"
      [] decoratorName = "Post" -> "POST"
      [] decoratorName = "Put" -> "PUT"
      [] decoratorName = "Delete" -> "DELETE"
      [] decoratorName = "Patch" -> "PATCH"
      [] decoratorName = "Options" -> "OPTIONS"
      [] decoratorName = "Head" -> "HEAD"
      [] decoratorName = "All" -> "ALL"
      [] OTHER -> "GET"

\* s.replace(/^\/|\/$/g, "")
TrimSlashes(s) ==
    LET t == IF s # <<>> /\ Head(s) = Slash THEN Tail(s) ELSE s
    IN IF t # <<>> /\ Last(t) = Slash THEN Front(t) ELSE t

\* the case of an empty prefix left out
combinePaths_NoEmptyCase(prefix, path) ==
    <<Slash>> \o TrimSlashes(prefix) \o <<Slash>> \o TrimSlashes(path)

\* the two pieces joined as they are, without trimming their slashes
combinePaths_NoTrim(prefix, path) ==
    <<Slash>> \o prefix \o <<Slash>> \o path

combinePaths(prefix, path) ==
    LET p == TrimSlashes(prefix)
        q == TrimSlashes(path)
    IN IF p = <<>> THEN <<Slash>> \o q
       ELSE IF q = <<>> THEN <<Slash>> \o p
       ELSE <<Slash>> \o p \o <<Slash>> \o q

\* the first argument of a decorator call, normalized; "" when there is none
\* or it resolves to no string
DecoratorPath(args) ==
    IF Len(args) > 0 /\ Truthy(extractStringValue(args[1]))
    THEN normalizePath(extractStringValue(args[1]))
    ELSE <<>>

\* every class decorator taken for the controller decorator
IsControllerDecorator_AnyDecorator(d) == TRUE

IsControllerDecorator(d) ==
    \/ d.type = "CallExpression" /\ d.callee.type = "Identifier"
           /\ d.callee.name = NESTJS_CONTROLLER_DECORATOR
    \/ d.type = "Identifier" /\ d.name = NESTJS_CONTROLLER_DECORATOR

\* the decorator the loop of parseController breaks at: the first one that
\* names Controller; 0 when none does
ControllerDecoratorIndex(decorators) ==
    LET hit == {i \in 1..Len(decorators) : IsControllerDecorator(decorators[i])}
    IN IF hit = {} THEN 0 ELSE CHOOSE i \in hit : \A j \in hit : i <= j

controllerPrefixOf(decorators) ==
    LET d == decorators[ControllerDecoratorIndex(decorators)]
    IN IF d.type = "CallExpression" THEN DecoratorPath(d.arguments) ELSE <<>>

IsVerbDecorator(d) ==
    /\ d.type = "CallExpression"
    /\ d.callee.type = "Identifier"
    /\ d.callee.name \in NESTJS_METHOD_DECORATORS

\* the route one verb decorator of a method produces
NestRoute(decorator, method, controllerPrefix, controllerName) ==
    LET fullPath == combinePaths(controllerPrefix, DecoratorPath(decorator.arguments))
    IN [path |-> fullPath,
        method |-> mapDecoratorToHttpMethod(decorator.callee.name),
        handler |-> IF method.key.type = "Identifier" THEN method.key.name ELSE "anonymous",
        framework |-> "nestjs",
        params |-> NestExtractRouteParams(fullPath),
        controller |-> controllerName,
        source |-> method]

parseMethodDecorators(method, controllerPrefix, controllerName) ==
    LET hit == SelectSeq(method.decorators, IsVerbDecorator)
    IN [i \in 1..Len(hit) |-> NestRoute(hit[i], method, controllerPrefix, controllerName)]

parseController(class) ==
    IF ControllerDecoratorIndex(class.decorators) = 0 THEN <<>>
    ELSE LET prefix == controllerPrefixOf(class.decorators)
             name == IF class.id # "" THEN class.id ELSE "UnknownController"
             methods == SelectSeq(class.body, LAMBDA m : m.type = "ClassMethod")
         IN Flatten([i \in 1..Len(methods) |->
                        parseMethodDecorators(methods[i], prefix, name)])

NestParse(f) ==
    IF ParseThrows(f)
    THEN [routes |-> <<>>, framework |-> "nestjs", errors |-> <<ParseErrorEntry>>]
    ELSE [routes |-> Flatten([i \in 1..Len(f.classes) |-> parseController(f.classes[i])]),
          framework |-> "nestjs",
          errors |-> <<>>]

----------------------------------------------------------------------------
(* The text of a file: the tokens its syntax tree prints to.  String and   *)
(* template literals print to one token each, but for the module names of  *)
(* import statements.                                                      *)

RECURSIVE Render(_)
RECURSIVE RenderList(_)
Render(node) ==
    CASE node.type = "Identifier" -> <<node.name>>
      [] node.type = "StringLiteral" -> <<"'...'">>
      [] node.type = "TemplateLiteral" -> <<"TEMPLATE">>
      [] node.type = "MemberExpression" ->
             Render(node.object) \o <<".">> \o Render(node.property)
      [] node.type = "CallExpression" ->
             Render(node.callee) \o <<"(">> \o RenderList(node.arguments) \o <<")">>
      [] node.type = "FunctionExpression" ->
             <<"function">> \o (IF node.id # "" THEN <<node.id>> ELSE <<>>)
                 \o <<"(", ")", "{", "}">>
      [] node.type = "ArrowFunctionExpression" -> <<"(", ")", "=>", "{", "}">>
      [] node.type = "ObjectExpression" -> <<"{", "}">>
      [] node.type = "ArrayExpression" -> <<"[">> \o RenderList(node.elements) \o <<"]">>
      [] node.type = "ThisExpression" -> <<"this">>
      [] node.type = "VariableDeclarator" ->
             <<"const">> \o Render(node.id) \o <<"=">> \o Render(node.init) \o <<";">>
      [] node.type = "ExpressionStatement" -> Render(node.expression) \o <<";">>
      [] node.type = "Decorator" -> <<"@">> \o Render(node.expression)
      [] node.type = "ClassMethod" ->
             RenderList([i \in 1..Len(node.decorators) |->
                            [type |-> "Decorator", expression |-> node.decorators[i]]])
                 \o Render(node.key) \o <<"(", ")", "{", "}">>
      [] node.type = "ClassDeclaration" ->
             RenderList([i \in 1..Len(node.decorators) |->
                            [type |-> "Decorator", expression |-> node.decorators[i]]])
                 \o <<"class">> \o (IF node.id # "" THEN <<node.id>> ELSE <<>>)
                 \o <<"{">> \o RenderList(node.body) \o <<"}">>
      [] node.type = "ImportDeclaration" ->
             <<"import", "{">> \o node.specifiers \o <<"}", "from", node.source, ";">>
      [] node.type = "Require" ->
             <<"const", node.id, "=", "require", "(", node.source, ")", ";">>
RenderList(nodes) ==
    IF nodes = <<>> THEN <<>>
    ELSE Render(Head(nodes))
             \o (IF Len(nodes) > 1 /\ Head(nodes).type \in
                        {"Identifier", "StringLiteral", "TemplateLiteral",
                         "MemberExpression", "CallExpression", "FunctionExpression",
                         "ArrowFunctionExpression", "ObjectExpression",
                         "ArrayExpression", "ThisExpression"}
                 THEN <<",">> ELSE <<>>)
             \o RenderList(Tail(nodes))

\* the content of a file, as readFile returns it
Content(f) ==
    RenderList(f.imports) \o RenderList(f.decls)
        \o RenderList([i \in 1..Len(f.calls) |->
                          [type |-> "ExpressionStatement", expression |-> f.calls[i]]])
        \o RenderList(f.classes)
        \o (IF f.syntax = "ok" THEN <<>> ELSE <<"}", "{", "(">>)

\* some i has text[i], text[i+1], ... in the sets of pattern, in order
Matches(text, pattern) ==
    \E i \in 1..Len(text) :
        /\ i + Len(pattern) - 1 <= Len(text)
        /\ \A k \in 1..Len(pattern) : text[i + k - 1] \in pattern[k]

\* tokens, among those of the model, that end in app or router
AppOrRouterTokens == {"app", "router"}
\* tokens that end in Router
RouterTokens == {"Router"}
\* tokens that begin with = or :
AssignTokens == {"=", "=>", ":"}
\* module names, quoted, that hold @nestjs/
NestModuleTokens == {"'@nestjs/common'", "'@nestjs/core'"}

----------------------------------------------------------------------------
(* The classifiers                                                         *)

ExpressCanParse(content) ==
    LET hasExpressImport ==
            \/ Matches(content, <<{"require"}, {"("}, {"'express'"}, {")"}>>)
            \/ Matches(content, <<{"from"}, {"'express'"}>>)
        hasExpressPatterns ==
            /\ Matches(content, <<{"."}, {"get", "post", "put", "delete", "patch",
                                          "options", "head"}, {"("}>>)
            /\ Matches(content, <<AppOrRouterTokens, AssignTokens>>)
        hasRouter == Matches(content, <<RouterTokens, {"("}, {")"}>>)
    IN hasExpressImport \/ hasExpressPatterns \/ hasRouter

NestCanParse(content) ==
    LET hasNestImport == Matches(content, <<NestModuleTokens>>)
        hasNestDecorators ==
            Matches(content, <<{"@"}, {"Controller", "Get", "Post", "Put",
                                       "Delete", "Patch"}>>)
    IN hasNestImport /\ hasNestDecorators

----------------------------------------------------------------------------
(* services/workspace-scanner.ts                                           *)

\* the parsers the scanner holds: its constructor creates an ExpressParser
ScannerCanParse(content) == ExpressCanParse(content)
ScannerParse(f) == ExpressParse(f)

\* how a call ends: by returning value, or by throwing to its caller
Returns(value) == [threw |-> FALSE, value |-> value]
Throws == [threw |-> TRUE, value |-> <<>>]

\* the try block of scanFile: fs.readFile rejects for a file that cannot be
\* read; canParse and parse return
TryScanFile(f) ==
    IF ~f.readable THEN Throws
    ELSE IF ~ScannerCanParse(Content(f)) THEN Returns(<<>>)
    ELSE Returns(ScannerParse(f).routes)

\* scanFile without its catch clause
scanFile_NoCatch(f) == TryScanFile(f)

\* scanFile: try { ... } catch (error) { console.error(...); return []; }
ScanFileCompletion(f) ==
    IF TryScanFile(f).threw THEN Returns(<<>>) ELSE TryScanFile(f)

\* scanFile: the routes of one file; [] when the file cannot be read or the
\* parser's classifier rejects it
scanFile(f) == ScanFileCompletion(f).value

----------------------------------------------------------------------------
(* services/workspace-scanner.ts: findFiles.  A path and a pattern are     *)
(* sequences of characters; a regular expression is a sequence of atoms:   *)
(* "[^/]*", "\\." (a dot) and characters that stand for themselves.         *)

\* glob matching as vscode.workspace.findFiles does it, of pattern from
\* position i against path from position j: ** is any string, * any string
\* without "/"
RECURSIVE GlobAt(_, _, _, _)
GlobAt(pattern, i, path, j) ==
    IF i > Len(pattern) THEN j > Len(path)
    ELSE IF pattern[i] = "*" /\ i < Len(pattern) /\ pattern[i + 1] = "*"
         THEN \E k \in j..(Len(path) + 1) : GlobAt(pattern, i + 2, path, k)
    ELSE IF pattern[i] = "*"
         THEN \E k \in j..(Len(path) + 1) :
                  /\ \A n \in j..(k - 1) : path[n] # Slash
                  /\ GlobAt(pattern, i + 1, path, k)
    ELSE j <= Len(path) /\ path[j] = pattern[i] /\ GlobAt(pattern, i + 1, path, j + 1)

GlobMatches(pattern, path) == GlobAt(pattern, 1, path, 1)

\* vscode.workspace.findFiles(include, exclude): exclude is a pattern or Null
VsFindFiles(workspace, include, exclude) ==
    SelectSeq(workspace,
              LAMBDA f : GlobMatches(include, f)
                            /\ (exclude = Null \/ ~GlobMatches(exclude, f)))

\* pattern.replace(/\*\*/g, '.*')
RECURSIVE ReplaceDoubleStar(_)
ReplaceDoubleStar(s) ==
    IF s = <<>> THEN <<>>
    ELSE IF Len(s) >= 2 /\ s[1] = "*" /\ s[2] = "*"
         THEN <<".", "*">> \o ReplaceDoubleStar(SubSeq(s, 3, Len(s)))
    ELSE <<Head(s)>> \o ReplaceDoubleStar(Tail(s))

\* .replace(/\*/g, '[^/]*')
ReplaceStar(s) == [i \in 1..Len(s) |-> IF s[i] = "*" THEN "[^/]*" ELSE s[i]]

\* .replace(/\./g, '\\.')
EscapeDots(s) == [i \in 1..Len(s) |-> IF s[i] = "." THEN "\\." ELSE s[i]]

\* the regular expression findFiles builds of an exclude pattern
RegexPattern(pattern) == EscapeDots(ReplaceStar(ReplaceDoubleStar(pattern)))

\* the atoms of regex from position i match path from position j on
RECURSIVE RegexAt(_, _, _, _)
RegexAt(regex, i, path, j) ==
    IF i > Len(regex) THEN TRUE
    ELSE IF regex[i] = "[^/]*"
         THEN \E k \in j..(Len(path) + 1) :
                  /\ \A n \in j..(k - 1) : path[n] # Slash
                  /\ RegexAt(regex, i + 1, path, k)
    ELSE IF regex[i] = "\\."
         THEN j <= Len(path) /\ path[j] = "." /\ RegexAt(regex, i + 1, path, j + 1)
    ELSE j <= Len(path) /\ path[j] = regex[i] /\ RegexAt(regex, i + 1, path, j + 1)

\* regex.test(filePath): a match anywhere in the path
RegexTest(regex, path) == \E j \in 1..(Len(path) + 1) : RegexAt(regex, 1, path, j)

\* Array.from(new Map(filtered.map((f) => [f.fsPath, f])).values()): each
\* path once, at the place of its first occurrence
RECURSIVE UniqueFiles(_)
UniqueFiles(fs) ==
    IF fs = <<>> THEN <<>>
    ELSE LET front == UniqueFiles(Front(fs))
         IN IF \E i \in 1..Len(front) : front[i] = Last(fs) THEN front
            ELSE Append(front, Last(fs))

findFiles(workspace, includePatterns, excludePatterns) ==
    LET excludePattern == IF Len(excludePatterns) > 0 THEN excludePatterns[1] ELSE Null
        allFiles == Flatten([i \in 1..Len(includePatterns) |->
                                VsFindFiles(workspace, includePatterns[i], excludePattern)])
        filtered == SelectSeq(allFiles,
                              LAMBDA f : ~\E i \in 1..Len(excludePatterns) :
                                            RegexTest(RegexPattern(excludePatterns[i]), f))
    IN UniqueFiles(filtered)

----------------------------------------------------------------------------
(* The files the model reads.  A file is its syntax tree: import           *)
(* statements, variable declarators, call statements and class             *)
(* declarations, with whether it can be read and how its syntax stands     *)
(* ("ok", "recovered": errors the parser recovers from, "fatal": the       *)
(* parser throws).                                                         *)

RequireExpress == [type |-> "Require", id |-> "express", source |-> "'express'"]
ImportExpress ==
    [type |-> "ImportDeclaration", specifiers |-> <<"Router">>, source |-> "'express'"]
ImportNest ==
    [type |-> "ImportDeclaration", specifiers |-> <<"Controller", ",", "Get">>,
     source |-> "'@nestjs/common'"]
ImportLocalApp ==
    [type |-> "ImportDeclaration", specifiers |-> <<"app">>, source |-> "'./app'"]
ImportLocalDecorators ==
    [type |-> "ImportDeclaration", specifiers |-> <<"Controller", ",", "Get">>,
     source |-> "'./decorators'"]

File(imports, decls, calls, classes) ==
    [imports |-> imports, decls |-> decls, calls |-> calls, classes |-> classes,
     readable |-> TRUE, syntax |-> "ok"]

RouteCall(receiver, method, args) == Call(Member(receiver, method), args)

PathStrings == SeqsUpTo(Alphabet, MaxPathLen)
PrefixStrings == SeqsUpTo(PrefixAlphabet, MaxFragLen)
FragStrings == SeqsUpTo(Alphabet, MaxFragLen)

\* app.get('<p>', h), every path string p
PathFiles ==
    {File(<<RequireExpress>>, <<>>, <<RouteCall(Id("app"), "get", <<Str(p), Id("h")>>)>>, <<>>) :
        p \in PathStrings}

TemplateExprs == {Id("a"), Id("ab"), Member(Id("req"), "id"), Call(Id("f"), <<>>)}

\* router.get(`<q1>${e}<q2>`, h)
TemplateFiles ==
    {File(<<RequireExpress>>, <<>>,
          <<RouteCall(Id("router"), "get", <<Tmpl(<<q1, q2>>, <<e>>), Id("h")>>)>>, <<>>) :
        q1 \in SeqsUpTo(Alphabet, 1), q2 \in SeqsUpTo(Alphabet, 1), e \in TemplateExprs}

SamplePath == <<"/", "a", "/", ":", "b">>

\* app.<m>('/a/:b', h), the verb methods and two others
MethodFiles ==
    {File(<<RequireExpress>>, <<>>, <<RouteCall(Id("app"), m, <<Str(SamplePath), Id("h")>>)>>, <<>>) :
        m \in EXPRESS_METHOD_NAMES \cup {"use", "listen"}}

ArgNodes ==
    {Id("auth"), Id("h"), Arrow, Obj,
     Arr(<<Id("auth"), Member(Id("mw"), "check"), Arrow>>),
     Member(Id("ctrl"), "list")}

\* app.post('/a/:b', <args>), every argument list
ArgFiles ==
    {File(<<RequireExpress>>, <<>>, <<RouteCall(Id("app"), "post", <<Str(SamplePath)>> \o rest)>>, <<>>) :
        rest \in SeqsUpTo(ArgNodes, MaxArgs)}

\* app.put('/a/:b', auth, <x>), every other kind of last argument
LastArgFiles ==
    {File(<<RequireExpress>>, <<>>,
          <<RouteCall(Id("app"), "put", <<Str(SamplePath), Id("auth"), x>>)>>, <<>>) :
        x \in {Func("named"), Func(""), This, Str(<<"a">>),
                Member(Member(This, "ctrl"), "list"),
                Call(Member(Id("passport"), "authenticate"), <<Str(<<"a">>)>>)}}

\* calls whose first argument is no string, and a call without arguments
FirstArgFiles ==
    {File(<<RequireExpress>>, <<>>, <<RouteCall(Id("app"), "get", args)>>, <<>>) :
        args \in {<<>>, <<Id("p"), Id("h")>>, <<Str(<<>>), Id("h")>>,
                  <<Obj, Id("h")>>, <<Str(SamplePath)>>}}

Receivers ==
    {Id("app"), Id("router"), Id("api"), Id("foo"),
     Member(Id("app"), "locals"), Member(Id("foo"), "app"),
     Member(Member(Id("api"), "v1"), "users"), Member(This, "app"),
     Call(Member(Id("router"), "route"), <<Str(<<"/", "a">>)>>)}

Declarators ==
    {Declarator("api", Call(Member(Id("express"), "Router"), <<>>)),
     Declarator("api", Call(Member(Id("express"), "Router"), <<Obj>>)),
     Declarator("api", Call(Id("Router"), <<>>)),
     Declarator("foo", Call(Member(Member(Id("lib"), "http"), "Router"), <<>>)),
     Declarator("foo", Call(Id("express"), <<>>)),
     Declarator("app", Call(Id("express"), <<>>))}

ImportChoices == {<<>>, <<RequireExpress>>, <<ImportExpress>>, <<ImportLocalApp>>}

\* <receiver>.<m>('/a/:b', h) after at most one declarator
ReceiverFiles ==
    {File(i, d, <<RouteCall(r, m, <<Str(SamplePath), Id("h")>>)>>, <<>>) :
        i \in ImportChoices, d \in SeqsUpTo(Declarators, 1), r \in Receivers,
        m \in {"get", "all"}}

\* a call whose callee is no member access, and a file without calls
OtherCallFiles ==
    {File(i, <<>>, c, <<>>) :
        i \in ImportChoices,
        c \in {<<>>, <<Call(Id("get"), <<Str(SamplePath), Id("h")>>)>>}}

Controller(args) == Call(Id("Controller"), args)
Verb(name, args) == Call(Id(name), args)

\* @Controller('<prefix>') class Cats { @Get('<fragment>') find() {} }
NestPathFiles ==
    {File(<<ImportNest>>, <<>>, <<>>,
          <<ClassDecl("Cats", <<Controller(<<Str(p)>>)>>,
                      <<ClassMethod("find", <<Verb("Get", <<Str(q)>>)>>)>>)>>) :
        p \in PrefixStrings, q \in FragStrings}

ClassDecorators ==
    {<<>>, <<Id("Controller")>>, <<Controller(<<>>)>>, <<Controller(<<Str(<<"a">>)>>)>>,
     <<Controller(<<Id("prefix")>>)>>, <<Call(Id("Injectable"), <<>>)>>,
     <<Call(Id("Injectable"), <<>>), Controller(<<Str(<<"a", "/">>)>>)>>,
     <<Call(Member(Id("nest"), "Controller"), <<>>)>>}

MethodDecorators ==
    {Verb("Get", <<>>), Verb("Get", <<Str(<<":", "a", "?">>)>>),
     Verb("Post", <<Tmpl(<<<<"b", "/">>, <<>>>>, <<Id("a")>>)>>),
     Verb("All", <<Id("p")>>), Verb("Options", <<Str(<<"/">>)>>),
     Id("Get"), Call(Id("UseGuards"), <<Id("auth")>>)}

NestImportChoices == {<<>>, <<ImportNest>>, <<ImportLocalDecorators>>}

\* a class with every choice of class decorators and of method decorators
NestShapeFiles ==
    {File(i, <<>>, <<>>, <<ClassDecl(n, cd, <<ClassMethod("find", md)>>)>>) :
        i \in NestImportChoices, n \in {"Cats", ""}, cd \in ClassDecorators,
        md \in SeqsUpTo(MethodDecorators, 2)}

\* a file with both an Express route call and a NestJS controller
MixedFiles ==
    {File(i, <<>>, <<RouteCall(Id(r), "get", <<Str(SamplePath), Id("h")>>)>>,
          <<ClassDecl("Cats", <<Controller(<<Str(<<"a">>)>>)>>,
                      <<ClassMethod("find", <<Verb("Get", <<>>)>>),
                        ClassMethod("add", <<Verb("Post", <<Str(<<":", "b">>)>>)>>)>>)>>) :
        i \in {<<>>, <<RequireExpress>>, <<ImportNest>>, <<RequireExpress, ImportNest>>},
        r \in {"app", "foo"}}

\* two classes, each with every choice of class decorators
TwoClassFiles ==
    {File(<<ImportNest>>, <<>>, <<>>,
          <<ClassDecl("Cats", cd1, <<ClassMethod("find", <<Verb("Get", <<>>)>>)>>),
            ClassDecl(n2, cd2,
                      <<ClassMethod("bark", <<Verb("Post", <<Str(<<"b">>)>>),
                                              Verb("Put", <<>>)>>)>>)>>) :
        cd1 \in ClassDecorators, cd2 \in ClassDecorators, n2 \in {"Dogs", ""}}

\* @Controller() class Cats { @<V>('/a') @<W>() find() {} }, every decorator
\* name of the table and two that are not in it
VerbDecoratorFiles ==
    {File(<<ImportNest>>, <<>>, <<>>,
          <<ClassDecl("Cats", <<Controller(<<>>)>>,
                      <<ClassMethod("find", <<Verb(v, <<Str(<<"/", "a">>)>>), Verb(w, <<>>)>>)>>)>>) :
        v \in NESTJS_METHOD_DECORATORS \cup {"Sse", "UseGuards"},
        w \in NESTJS_METHOD_DECORATORS \cup {"Sse", "UseGuards"}}

\* files that cannot be read, or whose syntax is broken
BrokenFiles ==
    {[f EXCEPT !.readable = r, !.syntax = s] :
        f \in MethodFiles \cup MixedFiles, r \in BOOLEAN, s \in {"ok", "recovered", "fatal"}}

Files ==
    PathFiles \cup TemplateFiles \cup MethodFiles \cup ArgFiles \cup LastArgFiles
        \cup FirstArgFiles
        \cup ReceiverFiles \cup OtherCallFiles \cup NestPathFiles \cup NestShapeFiles
        \cup MixedFiles \cup BrokenFiles \cup TwoClassFiles \cup VerbDecoratorFiles

----------------------------------------------------------------------------
(* The state machine: one file is picked, and both parsers' classifier and *)
(* extraction and the scanner's scanFile are run on it.                    *)

NoResult == [routes |-> <<>>, framework |-> "unknown", errors |-> <<>>]

\* the variables of the other specifications, at rest
FolderIdle == files = <<>> /\ index = 0 /\ folderRoutes = <<>>
CallIdle == utilCall = [op |-> "none"] /\ returned = Null
WatchIdle ==
    /\ disk = 0
    /\ pendingTimers = 0
    /\ isScanning = FALSE
    /\ snapshot = 0
    /\ shown = 0
    /\ timerCalls = 0
    /\ bursts = 0
    /\ directScans = 0
    /\ statusText = "none"
\* new RouteTreeProvider(), new RouteCodeLensProvider()
ProviderIdle ==
    /\ treeRoutes = <<>>
    /\ lensRoutes = <<>>
    /\ groupMode = "file"
    /\ filterMethod = NoFilter
\* RequestPanel.currentPanel is undefined
PanelIdle ==
    /\ currentPanel = 0
    /\ panelsMade = 0
    /\ panelRoute = NoName
    /\ requests = {}
    /\ lastPost = NoPost

Init ==
    /\ file \in Files
    /\ pc = "ready"
    /\ expressCan = FALSE
    /\ methodCalls = <<>>
    /\ nestCan = FALSE
    /\ expressResult = NoResult
    /\ nestResult = NoResult
    /\ scanned = <<>>
    /\ scanThrew = FALSE
    /\ FolderIdle
    /\ CallIdle
    /\ WatchIdle
    /\ ProviderIdle
    /\ PanelIdle

\* ExpressParser.canParse(content, filePath)
ExpressCanParseStep ==
    /\ pc = "ready"
    /\ expressCan' = ExpressCanParse(Content(file))
    /\ pc' = "expressClassified"
    /\ UNCHANGED <<file, methodCalls, expressResult, nestCan, nestResult, scanned, scanThrew>>
    /\ UNCHANGED <<folderVars, callVars, watchVars, providerVars, panelVars>>

\* ExpressParser.parse(content, filePath); methodCalls is its local of that
\* name, empty when the parser threw before it was set
ExpressParseStep ==
    /\ pc = "expressClassified"
    /\ methodCalls' = IF ParseThrows(file) THEN <<>> ELSE ExpressMethodCalls(file)
    /\ expressResult' = ExpressParse(file)
    /\ pc' = "expressParsed"
    /\ UNCHANGED <<file, expressCan, nestCan, nestResult, scanned, scanThrew>>
    /\ UNCHANGED <<folderVars, callVars, watchVars, providerVars, panelVars>>

\* NestJSParser.canParse(content, filePath)
NestCanParseStep ==
    /\ pc = "expressParsed"
    /\ nestCan' = NestCanParse(Content(file))
    /\ pc' = "nestClassified"
    /\ UNCHANGED <<file, expressCan, methodCalls, expressResult, nestResult, scanned, scanThrew>>
    /\ UNCHANGED <<folderVars, callVars, watchVars, providerVars, panelVars>>

\* NestJSParser.parse(content, filePath)
NestParseStep ==
    /\ pc = "nestClassified"
    /\ nestResult' = NestParse(file)
    /\ pc' = "nestParsed"
    /\ UNCHANGED <<file, expressCan, methodCalls, expressResult, nestCan, scanned, scanThrew>>
    /\ UNCHANGED <<folderVars, callVars, watchVars, providerVars, panelVars>>

\* WorkspaceScanner.scanFile(fileUri)
ScanFileStep ==
    /\ pc = "nestParsed"
    /\ scanned' = scanFile(file)
    /\ scanThrew' = ScanFileCompletion(file).threw
    /\ pc' = "scanned"
    /\ UNCHANGED <<file, expressCan, methodCalls, expressResult, nestCan, nestResult>>
    /\ UNCHANGED <<folderVars, callVars, watchVars, providerVars, panelVars>>

Next ==
    \/ ExpressCanParseStep
    \/ ExpressParseStep
    \/ NestCanParseStep
    \/ NestParseStep
    \/ ScanFileStep

Spec == Init /\ [][Next]_vars

ExpressParsed == pc \in {"expressParsed", "nestClassified", "nestParsed", "scanned"}
NestParsed == pc \in {"nestParsed", "scanned"}
Scanned == pc = "scanned"

----------------------------------------------------------------------------
(* scanFolder: the files findFiles returns are scanned one after another.  *)

\* routes.push(...fileRoutes)
PushRoutes_Replace(routes, fileRoutes) == fileRoutes

PushRoutes(routes, fileRoutes) == routes \o fileRoutes

\* the files of a folder: two Express files, one of two routes, a NestJS
\* controller file and a file without routes, which the classifier rejects,
\* and files that cannot be read or parsed
GetFile ==
    File(<<RequireExpress>>, <<>>,
         <<RouteCall(Id("app"), "get", <<Str(SamplePath), Id("h")>>)>>, <<>>)
PostFile ==
    File(<<ImportExpress>>, <<Declarator("api", Call(Member(Id("express"), "Router"), <<>>))>>,
         <<RouteCall(Id("api"), "post", <<Str(<<"/", "b">>), Id("auth"), Id("h")>>),
           RouteCall(Id("api"), "delete", <<Str(<<"/", "b">>), Id("h")>>)>>, <<>>)
ControllerFile ==
    File(<<ImportNest>>, <<>>, <<>>,
         <<ClassDecl("Cats", <<Controller(<<Str(<<"a">>)>>)>>,
                     <<ClassMethod("find", <<Verb("Get", <<>>)>>)>>)>>)
PlainFile == File(<<>>, <<>>, <<Call(Id("main"), <<>>)>>, <<>>)

FolderFiles ==
    {GetFile, PostFile, ControllerFile, PlainFile,
     [GetFile EXCEPT !.readable = FALSE],
     [PostFile EXCEPT !.syntax = "fatal"],
     [PostFile EXCEPT !.syntax = "recovered"]}

\* the variables of the one-file specification, at rest
FileIdle ==
    /\ file = PlainFile
    /\ expressCan = FALSE
    /\ methodCalls = <<>>
    /\ nestCan = FALSE
    /\ expressResult = NoResult
    /\ nestResult = NoResult
    /\ scanned = <<>>
    /\ scanThrew = FALSE

FolderInit ==
    /\ files \in SeqsUpTo(FolderFiles, MaxFiles)
    /\ index = 0
    /\ folderRoutes = <<>>
    /\ pc = "scanning"
    /\ FileIdle
    /\ CallIdle
    /\ WatchIdle
    /\ ProviderIdle
    /\ PanelIdle

\* one turn of the loop: const fileRoutes = await this.scanFile(file);
\* routes.push(...fileRoutes); scanFolder rejects if scanFile does
ScanNextFile ==
    /\ pc = "scanning"
    /\ index < Len(files)
    /\ LET done == ScanFileCompletion(files[index + 1])
       IN IF done.threw
          THEN pc' = "threw" /\ UNCHANGED <<index, folderRoutes>>
          ELSE /\ folderRoutes' = PushRoutes(folderRoutes, done.value)
               /\ index' = index + 1
               /\ pc' = pc
    /\ UNCHANGED <<files, fileVars, callVars, watchVars, providerVars, panelVars>>

\* return routes
ReturnRoutes ==
    /\ pc = "scanning"
    /\ index = Len(files)
    /\ pc' = "returned"
    /\ UNCHANGED <<folderVars, fileVars, callVars, watchVars, providerVars, panelVars>>

FolderNext == ScanNextFile \/ ReturnRoutes

FolderSpec == FolderInit /\ [][FolderNext]_vars

----------------------------------------------------------------------------
(* The utility functions called by themselves: combinePaths,               *)
(* extractStringValue and extractName, each on arguments of its type.      *)

PieceStrings == SeqsUpTo({Slash, "a", "b"}, MaxPieceLen)

\* template literals of n expressions and n + 1 quasis
QuasiStrings == SeqsUpTo({Slash, "a"}, 1)
TemplatesOf(n) ==
    {Tmpl(q, e) : q \in [1..(n + 1) -> QuasiStrings], e \in [1..n -> TemplateExprs]}
TemplateNodes == UNION {TemplatesOf(n) : n \in 0..MaxExprs}

\* member chains: a root and up to MaxChain property accesses
ChainRoots == {Id("a"), Id("req"), This, Call(Id("f"), <<>>), Str(<<"a">>)}
RECURSIVE ChainsOf(_)
ChainsOf(n) ==
    IF n = 0 THEN ChainRoots
    ELSE {Member(o, p) : o \in ChainsOf(n - 1), p \in {"x", "y"}}
MemberChains == UNION {ChainsOf(n) : n \in 1..MaxChain}

OtherNodes == {Id("p"), Obj, Arrow, Func("named"), Func(""), This, Arr(<<>>),
               Call(Id("f"), <<>>)}

CombinePathsCalls ==
    {[op |-> "combinePaths", args |-> <<p, q>>] : p \in PieceStrings, q \in PieceStrings}
ExtractStringValueCalls ==
    {[op |-> "extractStringValue", args |-> <<n>>] :
        n \in TemplateNodes \cup {Str(v) : v \in PieceStrings} \cup OtherNodes \cup MemberChains}
ExtractNameCalls ==
    {[op |-> "extractName", args |-> <<n>>] :
        n \in MemberChains \cup OtherNodes \cup {Str(<<"a">>)}}

\* the paths of a workspace: files under s (src), n (node_modules), d (dist)
\* and b (build), with the extensions j and t, and one under a folder and
\* with a name that hold dots
WorkspacePaths ==
    << <<"/", "s", "/", "a", ".", "j">>,
       <<"/", "n", "/", "a", ".", "j">>,
       <<"/", "d", "/", "a", ".", "j">>,
       <<"/", "b", "/", "a", ".", "t">>,
       <<"/", "s", "/", "a", ".", "t">>,
       <<"/", "s", ".", "x", "/", "d", "/", ".", "a", ".", "j">> >>

\* **/*.j, **/*.t and **/a.*
IncludeChoices ==
    {<<"*", "*", "/", "*", ".", "j">>, <<"*", "*", "/", "*", ".", "t">>,
     <<"*", "*", "/", "a", ".", "*">>}

\* **/n/**, **/d/** and **/b/**
ExcludeChoices ==
    {<<"*", "*", "/", "n", "/", "*", "*">>, <<"*", "*", "/", "d", "/", "*", "*">>,
     <<"*", "*", "/", "b", "/", "*", "*">>}

FindFilesCalls ==
    {[op |-> "findFiles", args |-> <<WorkspacePaths, inc, exc>>] :
        inc \in SeqsUpTo(IncludeChoices, MaxPatterns) \ {<<>>},
        exc \in SeqsUpTo(ExcludeChoices, MaxPatterns)}

CallInit ==
    /\ \/ utilCall \in CombinePathsCalls
       \/ utilCall \in ExtractStringValueCalls
       \/ utilCall \in ExtractNameCalls
       \/ utilCall \in FindFilesCalls
    /\ returned = Null
    /\ pc = "called"
    /\ FileIdle
    /\ FolderIdle
    /\ WatchIdle
    /\ ProviderIdle
    /\ PanelIdle

\* NestJSParser.combinePaths(prefix, path)
CombinePathsCall ==
    /\ pc = "called"
    /\ utilCall.op = "combinePaths"
    /\ returned' = combinePaths(utilCall.args[1], utilCall.args[2])
    /\ pc' = "returned"
    /\ UNCHANGED <<utilCall, fileVars, folderVars, watchVars, providerVars, panelVars>>

\* extractStringValue(node)
ExtractStringValueCall ==
    /\ pc = "called"
    /\ utilCall.op = "extractStringValue"
    /\ returned' = extractStringValue(utilCall.args[1])
    /\ pc' = "returned"
    /\ UNCHANGED <<utilCall, fileVars, folderVars, watchVars, providerVars, panelVars>>

\* extractName(node)
ExtractNameCall ==
    /\ pc = "called"
    /\ utilCall.op = "extractName"
    /\ returned' = extractName(utilCall.args[1])
    /\ pc' = "returned"
    /\ UNCHANGED <<utilCall, fileVars, folderVars, watchVars, providerVars, panelVars>>

\* WorkspaceScanner.findFiles(folderUri, includePatterns, excludePatterns)
FindFilesCall ==
    /\ pc = "called"
    /\ utilCall.op = "findFiles"
    /\ returned' = findFiles(utilCall.args[1], utilCall.args[2], utilCall.args[3])
    /\ pc' = "returned"
    /\ UNCHANGED <<utilCall, fileVars, folderVars, watchVars, providerVars, panelVars>>

CallNext ==
    \/ CombinePathsCall
    \/ ExtractStringValueCall
    \/ ExtractNameCall
    \/ FindFilesCall

CallSpec == CallInit /\ [][CallNext]_vars

Returned(op) == pc = "returned" /\ utilCall.op = op

----------------------------------------------------------------------------
(* route-tree-provider.ts and route-codelens-provider.ts.  A route is a    *)
(* record of its method, its path and its filePath; a filePath is the      *)
(* sequence of its segments, a path a string.  A Map is the sequence of    *)
(* its entries in insertion order.                                         *)

GroupModes == {"file", "method", "path"}
\* the quick pick of routify.filterByMethod: Show All, or a method
FilterChoices == {NoFilter, "GET", "POST"}

\* if (!groups.has(key)) groups.set(key, []); groups.get(key).push(route)
MapPush(entries, key, route) ==
    IF \E n \in 1..Len(entries) : entries[n].key = key
    THEN LET n == CHOOSE n \in 1..Len(entries) : entries[n].key = key
         IN  [entries EXCEPT ![n].routes = Append(@, route)]
    ELSE Append(entries, [key |-> key, routes |-> <<route>>])

\* for (const route of routes) { ... }, keys[i] being the key of routes[i]
RECURSIVE MapFrom(_, _, _)
MapFrom(entries, routes, keys) ==
    IF routes = <<>> THEN entries
    ELSE MapFrom(MapPush(entries, Head(keys), Head(routes)), Tail(routes), Tail(keys))

MapEntries(routes, keys) == MapFrom(<<>>, routes, keys)

GroupNode(label, routes) == [label |-> label, routes |-> routes]

GroupNodes(entries) ==
    [n \in 1..Len(entries) |-> GroupNode(entries[n].key, entries[n].routes)]

\* path.basename
Basename(filePath) == filePath[Len(filePath)]

groupByFile(routes) ==
    GroupNodes(MapEntries(routes, [i \in 1..Len(routes) |-> Basename(routes[i].filePath)]))

groupByMethod(routes) ==
    GroupNodes(MapEntries(routes, [i \in 1..Len(routes) |-> routes[i].method]))

RECURSIVE Split(_, _)
Split(s, sep) ==
    IF \A i \in 1..Len(s) : s[i] # sep THEN <<s>>
    ELSE LET at == CHOOSE i \in 1..Len(s) : s[i] = sep /\ \A j \in 1..(i - 1) : s[j] # sep
         IN  <<SubSeq(s, 1, at - 1)>> \o Split(SubSeq(s, at + 1, Len(s)), sep)

extractBasePath(fullPath) ==
    LET Kept(p) == p # <<>> /\ p[1] # ":"
        parts == SelectSeq(Split(fullPath, "/"), Kept)
    IN  IF Len(parts) > 0 THEN <<"/">> \o parts[1] ELSE <<"/">>

groupByPath(routes) ==
    GroupNodes(MapEntries(routes, [i \in 1..Len(routes) |-> extractBasePath(routes[i].path)]))

FilteredRoutes(routes, filter) ==
    LET Has(r) == r.method = filter
    IN  IF filter # NoFilter THEN SelectSeq(routes, Has) ELSE routes

getRootNodes(routes, mode, filter) ==
    LET filteredRoutes == FilteredRoutes(routes, filter)
    IN  IF Len(filteredRoutes) = 0 THEN <<>>
        ELSE CASE mode = "file" -> groupByFile(filteredRoutes)
               [] mode = "method" -> groupByMethod(filteredRoutes)
               [] mode = "path" -> groupByPath(filteredRoutes)
               [] OTHER -> groupByFile(filteredRoutes)

\* a CodeLens provider whose map is not cleared
LensSetRoutes_NoClear(old, routes) ==
    MapFrom(old, routes, [i \in 1..Len(routes) |-> routes[i].filePath])

\* RouteCodeLensProvider.setRoutes: this.routes.clear(), then the routes
\* are grouped by route.filePath
LensSetRoutes(old, routes) ==
    MapEntries(routes, [i \in 1..Len(routes) |-> routes[i].filePath])

----------------------------------------------------------------------------
(* extension.ts: the file watcher, its debounce timer, scanWorkspace and   *)
(* the commands, with autoRefresh enabled.  The content of the workspace   *)
(* is numbered by the file events so far (disk); snapshot is the content   *)
(* the running scan has read, shown the content whose routes the tree and  *)
(* CodeLens providers hold, -1 before the first scan has set them.  pc is  *)
(* the position of scanWorkspace.  pendingTimers counts the timeouts set   *)
(* and neither fired nor cleared, timerCalls the calls of scanWorkspace    *)
(* the timeouts have made, bursts the file events that came when no        *)
(* timeout was pending, directScans the calls of scanner.scanWorkspace()   *)
(* that commands have made themselves and that have not settled.           *)

AIndex == <<"a", "index.js">>
BIndex == <<"b", "index.js">>
BApp == <<"b", "app.js">>

Route(method, path, filePath) == [method |-> method, path |-> path, filePath |-> filePath]

\* the routes of the workspace after each file event: routes are added to
\* a file, a file of the same name appears in another folder, a file is
\* deleted, every file is deleted
WorkspaceRoutes(version) ==
    LET v == version % 5
    IN  CASE v = 0 -> <<Route("GET", <<"/", "u">>, AIndex)>>
          [] v = 1 -> <<Route("GET", <<"/", "u">>, AIndex),
                        Route("POST", <<"/", "u", "/", ":", "i">>, AIndex)>>
          [] v = 2 -> <<Route("GET", <<"/", "u">>, AIndex),
                        Route("GET", <<"/", "p">>, BIndex),
                        Route("POST", <<"/", "u", "/", ":", "i">>, AIndex)>>
          [] v = 3 -> <<Route("GET", <<"/", "p">>, BIndex),
                        Route("POST", <<"/", ":", "i">>, BApp)>>
          [] OTHER -> <<>>

StatusOf(routes) == IF Len(routes) = 0 THEN "No routes found" ELSE "routes"

\* activate(): scanWorkspace() is called, not awaited, and the watcher set up
WatchInit ==
    /\ disk = 0
    /\ pendingTimers = 0
    /\ isScanning = TRUE
    /\ snapshot = 0
    /\ shown = -1
    /\ timerCalls = 0
    /\ bursts = 0
    /\ directScans = 0
    /\ statusText = "Scanning routes..."
    /\ pc = "scanStarted"
    /\ ProviderIdle
    /\ FileIdle
    /\ FolderIdle
    /\ CallIdle
    /\ PanelIdle

\* the head of scanWorkspace: if (isScanning) return; isScanning = true
EnterScanWorkspace ==
    IF isScanning THEN UNCHANGED <<isScanning, pc, statusText>>
    ELSE isScanning' = TRUE /\ pc' = "scanStarted" /\ statusText' = "Scanning routes..."

\* a debouncedScan that leaves the earlier timeout pending
debouncedScan_NoClear(pending) == pending + 1

\* if (debounceTimer) clearTimeout(debounceTimer);
\* debounceTimer = setTimeout(...)
debouncedScan(pending) == (IF pending > 0 THEN pending - 1 ELSE pending) + 1

\* a scanWorkspace without its finally block
ReleaseGuard_Never(scanning) == scanning

\* finally { isScanning = false }
ReleaseGuard(scanning) == FALSE

\* onDidChange, onDidCreate, onDidDelete: debouncedScan()
FileEvent ==
    /\ disk < MaxEvents
    /\ disk' = disk + 1
    /\ pendingTimers' = debouncedScan(pendingTimers)
    /\ bursts' = IF pendingTimers = 0 THEN bursts + 1 ELSE bursts
    /\ UNCHANGED <<isScanning, snapshot, shown, timerCalls, directScans, statusText, pc>>
    /\ UNCHANGED <<fileVars, folderVars, callVars, providerVars, panelVars>>

\* the timer's callback, 500 ms after the last event: scanWorkspace()
TimerFires ==
    /\ pendingTimers > 0
    /\ pendingTimers' = pendingTimers - 1
    /\ timerCalls' = timerCalls + 1
    /\ EnterScanWorkspace
    /\ UNCHANGED <<disk, snapshot, shown, bursts, directScans>>
    /\ UNCHANGED <<fileVars, folderVars, callVars, providerVars, panelVars>>

\* the commands routify.refresh and routify.clearCache, a change of the
\* workspace folders or of the configuration: await scanWorkspace()
RefreshCommand ==
    /\ EnterScanWorkspace
    /\ UNCHANGED <<disk, pendingTimers, snapshot, shown, timerCalls, bursts, directScans>>
    /\ UNCHANGED <<fileVars, folderVars, callVars, providerVars, panelVars>>

\* the commands routify.searchRoutes, showStats, exportToJson,
\* showRoutesInCurrentFile and generateDocumentation:
\* const routes = await scanner.scanWorkspace()
DirectScanCommand ==
    /\ directScans < MaxDirect
    /\ directScans' = directScans + 1
    /\ UNCHANGED <<disk, pendingTimers, isScanning, snapshot, shown, timerCalls, bursts,
                   statusText, pc>>
    /\ UNCHANGED <<fileVars, folderVars, callVars, providerVars, panelVars>>

\* the scan of such a command settles; its routes go to a quick pick, a
\* message or a document
DirectScanSettles ==
    /\ directScans > 0
    /\ directScans' = directScans - 1
    /\ UNCHANGED <<disk, pendingTimers, isScanning, snapshot, shown, timerCalls, bursts,
                   statusText, pc>>
    /\ UNCHANGED <<fileVars, folderVars, callVars, providerVars, panelVars>>

\* await scanner.scanWorkspace(): the files are read
ScanReads ==
    /\ pc = "scanStarted"
    /\ snapshot' = disk
    /\ pc' = "filesRead"
    /\ UNCHANGED <<disk, pendingTimers, isScanning, shown, timerCalls, bursts, directScans,
                   statusText>>
    /\ UNCHANGED <<fileVars, folderVars, callVars, providerVars, panelVars>>

\* await scanner.scanWorkspace() rejects: catch { ... "Scan failed" },
\* finally { isScanning = false }
ScanRejects ==
    /\ pc = "scanStarted"
    /\ statusText' = "Scan failed"
    /\ isScanning' = ReleaseGuard(isScanning)
    /\ pc' = "noScan"
    /\ UNCHANGED <<disk, pendingTimers, snapshot, shown, timerCalls, bursts, directScans>>
    /\ UNCHANGED <<fileVars, folderVars, callVars, providerVars, panelVars>>

\* treeProvider.setRoutes(routes); codeLensProvider.setRoutes(routes);
\* the status bar shows the count; finally { isScanning = false }
ScanFinishes ==
    /\ pc = "filesRead"
    /\ shown' = snapshot
    /\ treeRoutes' = WorkspaceRoutes(snapshot)
    /\ lensRoutes' = LensSetRoutes(lensRoutes, WorkspaceRoutes(snapshot))
    /\ statusText' = StatusOf(WorkspaceRoutes(snapshot))
    /\ isScanning' = ReleaseGuard(isScanning)
    /\ pc' = "noScan"
    /\ UNCHANGED <<disk, pendingTimers, snapshot, timerCalls, bursts, directScans>>
    /\ UNCHANGED <<groupMode, filterMethod, fileVars, folderVars, callVars, panelVars>>

\* the commands routify.groupByFile, groupByMethod and groupByPath
GroupCommand ==
    /\ \E mode \in GroupModes : groupMode' = mode
    /\ UNCHANGED <<treeRoutes, lensRoutes, filterMethod, pc>>
    /\ UNCHANGED <<fileVars, folderVars, callVars, watchVars, panelVars>>

\* the command routify.filterByMethod: setFilter(method) or clearFilter()
FilterCommand ==
    /\ \E method \in FilterChoices : filterMethod' = method
    /\ UNCHANGED <<treeRoutes, lensRoutes, groupMode, pc>>
    /\ UNCHANGED <<fileVars, folderVars, callVars, watchVars, panelVars>>

WatchNext ==
    \/ FileEvent
    \/ TimerFires
    \/ RefreshCommand
    \/ ScanReads
    \/ ScanFinishes

\* the watcher with a scanner whose scanWorkspace resolves: timers fire and
\* a scan that has started reads and finishes; file events and commands
\* come as the user makes them
WatchSpec ==
    /\ WatchInit
    /\ [][WatchNext]_vars
    /\ WF_vars(TimerFires)
    /\ WF_vars(ScanReads)
    /\ WF_vars(ScanFinishes)

ScanNext ==
    \/ FileEvent
    \/ TimerFires
    \/ RefreshCommand
    \/ DirectScanCommand
    \/ DirectScanSettles
    \/ ScanReads
    \/ ScanRejects
    \/ ScanFinishes

\* the scans of the extension, the tree left as it is: timers fire, the
\* scanner's promise settles one way or the other, and what follows the
\* await runs
ScanSpec ==
    /\ WatchInit
    /\ [][ScanNext]_vars
    /\ WF_vars(TimerFires)
    /\ WF_vars(ScanReads \/ ScanRejects)
    /\ WF_vars(ScanFinishes)

ExtensionNext ==
    \/ FileEvent
    \/ TimerFires
    \/ RefreshCommand
    \/ DirectScanCommand
    \/ DirectScanSettles
    \/ ScanReads
    \/ ScanRejects
    \/ ScanFinishes
    \/ GroupCommand
    \/ FilterCommand

\* the whole extension: the scans and the commands of the tree
ExtensionSpec == WatchInit /\ [][ExtensionNext]_vars

----------------------------------------------------------------------------
(* request-panel.ts.  currentPanel is the number of the RequestPanel       *)
(* object RequestPanel.currentPanel holds, 0 when it is undefined;         *)
(* panelRoute is the route of that object.  A request in flight keeps the  *)
(* object whose sendRequest made it (the this of its callbacks) and the    *)
(* route it was sent for.  lastPost is the latest call of                  *)
(* this._panel.webview.postMessage.                                        *)

PanelRoutes == {"GET /a", "POST /b"}

\* what a callback of a request hands to this._panel.webview.postMessage
Post(command, request) ==
    [command |-> command,
     route |-> request.route,
     disposed |-> request.panel # currentPanel,
     displayed |-> IF request.panel = currentPanel THEN panelRoute ELSE NoName]

PanelInit ==
    /\ PanelIdle
    /\ pc = "panel"
    /\ FileIdle
    /\ FolderIdle
    /\ CallIdle
    /\ WatchIdle
    /\ ProviderIdle

\* RequestPanel.show(route, baseUrl)
Show ==
    /\ \E route \in PanelRoutes :
          IF currentPanel # 0
          THEN /\ panelRoute' = route
               /\ UNCHANGED <<currentPanel, panelsMade>>
          ELSE /\ panelsMade < MaxPanels
               /\ panelsMade' = panelsMade + 1
               /\ currentPanel' = panelsMade + 1
               /\ panelRoute' = route
    /\ UNCHANGED <<requests, lastPost, pc>>
    /\ UNCHANGED <<fileVars, folderVars, callVars, watchVars, providerVars>>

\* the webview's sendRequest message: client.request(fullUrl, options, ...)
\* with options.method = this.route.method
SendRequest ==
    /\ currentPanel # 0
    /\ Cardinality(requests) < MaxRequests
    /\ requests' = requests \cup {[panel |-> currentPanel, route |-> panelRoute]}
    /\ UNCHANGED <<currentPanel, panelsMade, panelRoute, lastPost, pc>>
    /\ UNCHANGED <<fileVars, folderVars, callVars, watchVars, providerVars>>

\* res.on("end"): postMessage({ command: "response", ... })
ResponseEnds ==
    /\ \E request \in requests :
          /\ requests' = requests \ {request}
          /\ lastPost' = Post("response", request)
    /\ UNCHANGED <<currentPanel, panelsMade, panelRoute, pc>>
    /\ UNCHANGED <<fileVars, folderVars, callVars, watchVars, providerVars>>

\* req.on("error") and res.on("error"): postMessage({ command: "error", ... })
RequestErrors ==
    /\ \E request \in requests :
          /\ requests' = requests \ {request}
          /\ lastPost' = Post("error", request)
    /\ UNCHANGED <<currentPanel, panelsMade, panelRoute, pc>>
    /\ UNCHANGED <<fileVars, folderVars, callVars, watchVars, providerVars>>

\* req.on("timeout"): req.destroy(); postMessage({ command: "error", ... })
RequestTimesOut ==
    /\ \E request \in requests :
          /\ requests' = requests \ {request}
          /\ lastPost' = Post("error", request)
    /\ UNCHANGED <<currentPanel, panelsMade, panelRoute, pc>>
    /\ UNCHANGED <<fileVars, folderVars, callVars, watchVars, providerVars>>

\* dispose(): RequestPanel.currentPanel = undefined; this._panel.dispose()
Dispose ==
    /\ currentPanel # 0
    /\ currentPanel' = 0
    /\ panelRoute' = NoName
    /\ UNCHANGED <<panelsMade, requests, lastPost, pc>>
    /\ UNCHANGED <<fileVars, folderVars, callVars, watchVars, providerVars>>

PanelNext ==
    \/ Show
    \/ SendRequest
    \/ ResponseEnds
    \/ RequestErrors
    \/ RequestTimesOut
    \/ Dispose

PanelSpec == PanelInit /\ [][PanelNext]_vars

----------------------------------------------------------------------------
(* What the properties below speak of.                                     *)

Range(s) == {s[i] : i \in 1..Len(s)}

ExpressRoutes == Range(expressResult.routes)
NestRoutes == Range(nestResult.routes)
AllRoutes == ExpressRoutes \cup NestRoutes

\* a path starts with "/", has no "//" and ends with "/" only when it is "/"
NormalForm(p) ==
    /\ Len(p) >= 1
    /\ p[1] = Slash
    /\ \A i \in 1..(Len(p) - 1) : ~(p[i] = Slash /\ p[i + 1] = Slash)
    /\ Last(p) = Slash => Len(p) = 1

\* the positions of a path where a ":identifier" token starts
TokenStarts(s) == {i \in 1..(Len(s) - 1) : s[i] = Colon /\ s[i + 1] \in IdStart}

\* the k-th of them from the left
TokenStart(s, k) ==
    CHOOSE i \in TokenStarts(s) : Cardinality({j \in TokenStarts(s) : j < i}) = k - 1

TokenName(s, i) == SubSeq(s, i + 1, i + IdRun(s, i + 1))

\* whether the token that starts at i is written with a "?" after it
TokenOptional(s, i) ==
    LET after == i + 1 + IdRun(s, i + 1)
    IN after <= Len(s) /\ s[after] = "?"

TokenNames(s) ==
    [k \in 1..Cardinality(TokenStarts(s)) |-> TokenName(s, TokenStart(s, k))]

TokenEntries(s) ==
    [k \in 1..Cardinality(TokenStarts(s)) |->
        Param(TokenName(s, TokenStart(s, k)), ~TokenOptional(s, TokenStart(s, k)))]

ParamList(r) == IF "params" \in DOMAIN r THEN r.params ELSE <<>>
ParamNames(r) == [k \in 1..Len(ParamList(r)) |-> ParamList(r)[k].name]
MiddlewareList(r) == IF "middleware" \in DOMAIN r THEN r.middleware ELSE <<>>

\* the string literals a file gives as paths: the first arguments of its
\* calls and of its decorators
RECURSIVE DecoratorCalls(_)
DecoratorCalls(classes) ==
    IF classes = <<>> THEN {}
    ELSE {d \in Range(Head(classes).decorators) : d.type = "CallExpression"}
             \cup UNION {{d \in Range(m.decorators) : d.type = "CallExpression"} :
                            m \in Range(Head(classes).body)}
             \cup DecoratorCalls(Tail(classes))

PathLiterals(f) ==
    {extractStringValue(c.arguments[1]) :
        c \in {d \in Range(f.calls) \cup DecoratorCalls(f.classes) :
                  /\ Len(d.arguments) > 0
                  /\ extractStringValue(d.arguments[1]) # Null}}

\* the files the witnesses name
ExpressFile(path) ==
    File(<<RequireExpress>>, <<>>, <<RouteCall(Id("app"), "get", <<Str(path), Id("h")>>)>>, <<>>)
NestFile(prefix, fragment) ==
    File(<<ImportNest>>, <<>>, <<>>,
         <<ClassDecl("Cats", <<Controller(<<Str(prefix)>>)>>,
                     <<ClassMethod("find", <<Verb("Get", <<Str(fragment)>>)>>)>>)>>)

----------------------------------------------------------------------------
(* C1: every route of either extractor has a path that starts with "/",    *)
(* holds no two consecutive "/" and does not end with "/" unless it is     *)
(* "/" itself.                                                             *)
C1_PathNormalForm == \A r \in AllRoutes : NormalForm(r.path)

\* @Controller('a/') with @Get('/b') has produced the route /a/b
C1_Witness ==
    /\ NestParsed
    /\ file = NestFile(<<"a", "/">>, <<"/", "b">>)
    /\ Len(nestResult.routes) = 1
    /\ nestResult.routes[1].path = <<"/", "a", "/", "b">>

(* C2: normalizePath is idempotent: normalizing a path a second time       *)
(* changes nothing, for the paths of the routes found and for every path   *)
(* literal of the file, the empty string and strings with quotes and runs  *)
(* of "/" among them.                                                      *)
C2_NormalizeIdempotent ==
    /\ \A r \in ExpressRoutes : normalizePath(r.path) = r.path
    /\ \A p \in PathLiterals(file) :
           normalizePath(normalizePath(p)) = normalizePath(p)

\* app.get("a/'", h) has produced the route /a
C2_Witness ==
    /\ ExpressParsed
    /\ file = ExpressFile(<<"a", "/", "'">>)
    /\ Len(expressResult.routes) = 1
    /\ expressResult.routes[1].path = <<"/", "a">>

(* C3: the param names of every route are the ":identifier" tokens of its  *)
(* final path, left to right, one entry for each occurrence.               *)
C3_ParamsMatchPath == \A r \in AllRoutes : ParamNames(r) = TokenNames(r.path)

(* C4: every route's param entries mark optionality: a token written       *)
(* ":name?" gives the entry {name, path, required: false}, a token without *)
(* "?" gives required: true (said of the routes whose entries are those of *)
(* the path's tokens).                                                     *)
C4_OptionalMarked ==
    \A r \in AllRoutes :
        ParamNames(r) = TokenNames(r.path) => ParamList(r) = TokenEntries(r.path)

\* a call app.m(path, handler) with a verb method and a resolvable path
IsAppVerbCall(c) ==
    /\ c.callee.type = "MemberExpression"
    /\ c.callee.object = Id("app")
    /\ c.callee.property.name \in EXPRESS_METHOD_NAMES
    /\ Len(c.arguments) = 2
    /\ Truthy(extractStringValue(c.arguments[1]))

(* C5: a call app.m(path, handler), m one of the eight verb methods and    *)
(* the path resolvable and not empty, yields exactly one route, and its    *)
(* method is m in upper case; app.all yields a route with method ALL.      *)
C5_VerbCallYieldsRoute ==
    (ExpressParsed /\ ~ParseThrows(file)) =>
        \A c \in Range(file.calls) :
            IsAppVerbCall(c) =>
                /\ Cardinality({k \in 1..Len(expressResult.routes) :
                                   expressResult.routes[k].source = c}) = 1
                /\ \A r \in ExpressRoutes :
                       r.source = c => r.method = ToUpperCase(c.callee.property.name)

(* C6: the middleware of an Express route is built from the arguments      *)
(* strictly between the path and the argument chosen as handler, and from  *)
(* no other: the handler is never part of it, also when arguments that     *)
(* cannot be handlers follow it.                                           *)
C6_MiddlewareBetween ==
    \A r \in ExpressRoutes :
        MiddlewareList(r) =
            MiddlewareFrom(r.source.arguments, 2, HandlerIndex(r.source.arguments) - 1)

\* the dotted name of a receiver whose chain ends in an identifier
RECURSIVE RootIsIdentifier(_)
RootIsIdentifier(node) ==
    IF node.type = "Identifier" THEN TRUE
    ELSE IF node.type = "MemberExpression" THEN RootIsIdentifier(node.object)
    ELSE FALSE

QualifiedName(node) ==
    IF RootIsIdentifier(node) THEN Join(MemberParts(node)) ELSE NoName

\* the call sites C7 describes, for the receiver names parse() passes
IsCallSite(c, objectNames, methodNames) ==
    /\ c.callee.type = "MemberExpression"
    /\ c.callee.property.type = "Identifier"
    /\ c.callee.property.name \in methodNames
    /\ QualifiedName(c.callee.object) \in objectNames

(* C7: findMethodCalls returns a call exactly when its callee is a member  *)
(* access whose property is a candidate method name and whose receiver's   *)
(* full dotted name is a candidate receiver name, and it reports that      *)
(* dotted name as the receiver.                                            *)
C7_CallSiteDiscovery ==
    (ExpressParsed /\ ~ParseThrows(file)) =>
        /\ \A c \in Range(CallExpressions(file)) :
               (\E k \in 1..Len(methodCalls) : methodCalls[k].node = c)
                   <=> IsCallSite(c, EXPRESS_ROUTER_OBJECTS \cup findRouterVariables(file),
                                  EXPRESS_METHOD_NAMES)
        /\ \A k \in 1..Len(methodCalls) :
               methodCalls[k].objectName = QualifiedName(methodCalls[k].node.callee.object)

\* x is declared in the file with an initializer <object>.Router(...)
DeclaredAsRouter(x) ==
    \E d \in Range(file.decls) :
        /\ d.id = Id(x)
        /\ d.init.type = "CallExpression"
        /\ d.init.callee.type = "MemberExpression"
        /\ d.init.callee.property = Id("Router")

(* C8: a route of a verb-method call whose receiver is a plain identifier  *)
(* x exists only if x is app or router or a variable the file declares     *)
(* with an initializer <object>.Router(); a call on any other identifier   *)
(* yields no route.                                                        *)
C8_OnlyRouterObjects ==
    \A r \in ExpressRoutes :
        r.source.callee.object.type = "Identifier" =>
            \/ r.source.callee.object.name \in {"app", "router"}
            \/ DeclaredAsRouter(r.source.callee.object.name)

\* const api = express.Router(); api.get('/a/:b', h) has produced a route,
\* and api is neither app nor router
C8_Witness ==
    /\ ExpressParsed
    /\ file.decls = <<Declarator("api", Call(Member(Id("express"), "Router"), <<>>))>>
    /\ file.calls = <<RouteCall(Id("api"), "get", <<Str(SamplePath), Id("h")>>)>>
    /\ Len(expressResult.routes) = 1
    /\ expressResult.routes[1].source.callee.object = Id("api")

(* C9: neither classifier has false negatives: when an extractor's parse   *)
(* returns a route for a file, its canParse accepts the file.              *)
C9_NoFalseNegatives ==
    /\ (ExpressParsed /\ expressResult.routes # <<>>) => expressCan
    /\ (NestParsed /\ nestResult.routes # <<>>) => nestCan

(* C10: scanFile runs the classifier of both extractors and returns the    *)
(* routes of each extractor whose classifier accepted the file, and no     *)
(* others; a file the decorator classifier accepts yields the decorator    *)
(* extractor's routes.                                                     *)
C10_DispatchMerges ==
    (Scanned /\ file.readable) =>
        /\ expressCan => ExpressRoutes \subseteq Range(scanned)
        /\ nestCan => NestRoutes \subseteq Range(scanned)
        /\ Range(scanned) \subseteq
               (IF expressCan THEN ExpressRoutes ELSE {})
                   \cup (IF nestCan THEN NestRoutes ELSE {})

(* C11: when the syntax tree cannot be built, parse of either extractor    *)
(* returns an outcome with no routes and exactly one ParseError; and       *)
(* scanFile never throws to its caller, whatever the file holds and        *)
(* whether or not it can be read: it returns no routes for a file that     *)
(* cannot be read or parsed.                                               *)
C11_GracefulFailure ==
    /\ (ExpressParsed /\ ParseThrows(file)) =>
           expressResult.routes = <<>> /\ Len(expressResult.errors) = 1
    /\ (NestParsed /\ ParseThrows(file)) =>
           nestResult.routes = <<>> /\ Len(nestResult.errors) = 1
    /\ Scanned => ~scanThrew
    /\ (Scanned /\ (~file.readable \/ ParseThrows(file))) => scanned = <<>>

\* scanFile has returned for a file that cannot be read, and both parsers
\* have returned one error for its text, which no parser can build a tree of
C11_Witness ==
    /\ Scanned
    /\ ~file.readable
    /\ ParseThrows(file)
    /\ expressResult.errors = <<ParseErrorEntry>>
    /\ nestResult.errors = <<ParseErrorEntry>>
    /\ ~scanThrew

\* the file holds a route definition either extractor reads when the syntax
\* around it is sound
HasExpressRoute(f) == ExpressParse([f EXCEPT !.syntax = "ok"]).routes # <<>>
HasNestRoute(f) == NestParse([f EXCEPT !.syntax = "ok"]).routes # <<>>

(* C12: for a file with a valid route definition followed by malformed     *)
(* syntax, the extractor's outcome holds both the route and a non-empty    *)
(* errors sequence.                                                        *)
C12_PartialFailure ==
    /\ (ExpressParsed /\ file.syntax # "ok" /\ HasExpressRoute(file)) =>
           expressResult.routes # <<>> /\ expressResult.errors # <<>>
    /\ (NestParsed /\ file.syntax # "ok" /\ HasNestRoute(file)) =>
           nestResult.routes # <<>> /\ nestResult.errors # <<>>

\* a file fails when it cannot be read, the classifier rejects it or no
\* syntax tree can be built of it
Fails(f) == ~f.readable \/ ~ExpressCanParse(Content(f)) \/ ParseThrows(f)

\* the routes of the first k files that do not fail, in file order
RECURSIVE RoutesOfFirst(_)
RoutesOfFirst(k) ==
    IF k = 0 THEN <<>>
    ELSE RoutesOfFirst(k - 1)
             \o (IF Fails(files[k]) THEN <<>> ELSE ExpressParse(files[k]).routes)

(* C13: scanFolder goes on past failures: it never stops at a file that    *)
(* fails, and what it has collected after k files, and returns after the   *)
(* last, is the concatenation in file order of the routes of the files     *)
(* that did not fail; a failing file adds no route.                        *)
C13_BatchContinues ==
    /\ pc # "threw"
    /\ folderRoutes = RoutesOfFirst(index)
    /\ pc = "returned" => index = Len(files)

\* a folder of a file that cannot be read between two that can: scanFolder
\* has returned the one route of the first and the two of the last
C13_Witness ==
    /\ pc = "returned"
    /\ files = <<GetFile, [GetFile EXCEPT !.readable = FALSE], PostFile>>
    /\ Len(folderRoutes) = 3
    /\ folderRoutes[1].method = "GET"
    /\ folderRoutes[3].method = "DELETE"

\* a string without the "/" it starts with and the "/" it ends with
StripEnds(s) ==
    LET first == IF Len(s) >= 1 /\ s[1] = Slash THEN 2 ELSE 1
        last == IF Len(s) >= first /\ s[Len(s)] = Slash THEN Len(s) - 1 ELSE Len(s)
    IN SubSeq(s, first, last)

\* a string without any "/" at its ends
RECURSIVE StripAllEnds(_)
StripAllEnds(s) ==
    IF s = <<>> THEN s
    ELSE IF Head(s) = Slash THEN StripAllEnds(Tail(s))
    ELSE IF Last(s) = Slash THEN StripAllEnds(Front(s))
    ELSE s

\* the four cases of the combination rule, for stripped pieces
Combined(prefix, fragment) ==
    IF prefix = <<>> /\ fragment = <<>> THEN <<Slash>>
    ELSE IF prefix = <<>> THEN <<Slash>> \o fragment
    ELSE IF fragment = <<>> THEN <<Slash>> \o prefix
    ELSE <<Slash>> \o prefix \o <<Slash>> \o fragment

\* what parseMethodDecorators passes: a normalized path, or ""
PassedPiece(s) == s = <<>> \/ NormalForm(s)

CarriesController(c) ==
    \E d \in Range(c.decorators) :
        \/ d = Id("Controller")
        \/ d.type = "CallExpression" /\ d.callee = Id("Controller")

\* a decorator call whose callee is one of the eight verb decorator names
IsVerbCall(d) ==
    /\ d.type = "CallExpression"
    /\ d.callee.type = "Identifier"
    /\ d.callee.name \in {"Get", "Post", "Put", "Delete", "Patch", "Options", "Head", "All"}

\* the names of the verb decorators of a class's methods, in source order
RECURSIVE VerbNamesOfMethods(_)
VerbNamesOfMethods(methods) ==
    IF methods = <<>> THEN <<>>
    ELSE LET verbs == SelectSeq(Head(methods).decorators, IsVerbCall)
         IN [i \in 1..Len(verbs) |-> verbs[i].callee.name]
                \o VerbNamesOfMethods(Tail(methods))

\* those of the classes that carry Controller
RECURSIVE VerbNames(_)
VerbNames(classes) ==
    IF classes = <<>> THEN <<>>
    ELSE (IF CarriesController(Head(classes))
          THEN VerbNamesOfMethods(Head(classes).body) ELSE <<>>)
             \o VerbNames(Tail(classes))

(* C15: every route of the decorator extractor comes from a method of a    *)
(* class that carries a class-level decorator named Controller, and its    *)
(* controller field is that class's name; a class without the decorator    *)
(* contributes no route, whatever verb decorators its methods carry: the   *)
(* routes are as many as the verb decorators of the classes that carry it. *)
C15_ControllerOnly ==
    (NestParsed /\ ~ParseThrows(file)) =>
        /\ \A r \in NestRoutes :
               \E c \in Range(file.classes) :
                   /\ CarriesController(c)
                   /\ r.source \in Range(c.body)
                   /\ c.id # "" => r.controller = c.id
        /\ Len(nestResult.routes) = Len(VerbNames(file.classes))

\* of two classes whose methods carry verb decorators, Cats with
\* @Controller('a') and Dogs with @Injectable(), only Cats has given a route
C15_Witness ==
    /\ NestParsed
    /\ Len(file.classes) = 2
    /\ file.classes[1].decorators = <<Controller(<<Str(<<"a">>)>>)>>
    /\ file.classes[2].id = "Dogs"
    /\ file.classes[2].decorators = <<Call(Id("Injectable"), <<>>)>>
    /\ Len(nestResult.routes) = 1
    /\ nestResult.routes[1].controller = "Cats"

\* a path argument that is neither a string literal nor a template literal
Unresolvable(node) == node.type \notin {"StringLiteral", "TemplateLiteral"}

(* C16: when the path argument of a route call or of a verb decorator is   *)
(* present but resolves to no string, the call or decorator produces no    *)
(* route, and no ParseError is recorded: a call with such a path, and a    *)
(* method all of whose verb decorators have such a path, is the source of  *)
(* no route.                                                               *)
C16_UnresolvedSkipped ==
    /\ (ExpressParsed /\ ~ParseThrows(file)) =>
           /\ \A c \in Range(file.calls) :
                  (Len(c.arguments) > 0 /\ Unresolvable(c.arguments[1])) =>
                      \A r \in ExpressRoutes : r.source # c
           /\ expressResult.errors = <<>>
    /\ (NestParsed /\ ~ParseThrows(file)) =>
           /\ \A c \in Range(file.classes) : \A m \in Range(c.body) :
                  (\A d \in Range(m.decorators) :
                       IsVerbCall(d) =>
                           Len(d.arguments) > 0 /\ Unresolvable(d.arguments[1])) =>
                      \A r \in NestRoutes : r.source # m
           /\ nestResult.errors = <<>>

(* C17: the verb decorator table maps the eight names Get, Post, Put,      *)
(* Delete, Patch, Options, Head, All to eight distinct members of the      *)
(* HTTP method enumeration; the method of every decorator route is the     *)
(* table image of the decorator that produced it; and every route of       *)
(* either extractor has a method of the enumeration.                       *)
C17_VerbTable ==
    /\ \A n \in NESTJS_METHOD_DECORATORS : mapDecoratorToHttpMethod(n) \in HttpMethod
    /\ \A n1, n2 \in NESTJS_METHOD_DECORATORS :
           mapDecoratorToHttpMethod(n1) = mapDecoratorToHttpMethod(n2) => n1 = n2
    /\ NESTJS_METHOD_DECORATORS =
           {"Get", "Post", "Put", "Delete", "Patch", "Options", "Head", "All"}
    /\ (NestParsed /\ ~ParseThrows(file)) =>
           [k \in 1..Len(nestResult.routes) |-> nestResult.routes[k].method]
               = [k \in 1..Len(VerbNames(file.classes)) |->
                     mapDecoratorToHttpMethod(VerbNames(file.classes)[k])]
    /\ \A r \in AllRoutes : r.method \in HttpMethod

\* @All('/a') and @Head() on one method have given routes ALL and HEAD
C17_Witness ==
    /\ NestParsed
    /\ Len(file.classes) = 1
    /\ Len(file.classes[1].body) = 1
    /\ file.classes[1].body[1].decorators =
           <<Verb("All", <<Str(<<"/", "a">>)>>), Verb("Head", <<>>)>>
    /\ Len(nestResult.routes) = 2
    /\ nestResult.routes[1].method = "ALL"
    /\ nestResult.routes[2].method = "HEAD"

\* r(e): ":" and the name for a bare identifier, ":param" for any other
Replacement(e) ==
    IF e.type = "Identifier" THEN <<":">> \o Chars(e.name)
    ELSE <<":", "p", "a", "r", "a", "m">>

\* r(e[i]) + q[i+1] + ... + r(e[n]) + q[n+1]
RECURSIVE SplicedFrom(_, _, _)
SplicedFrom(q, e, i) ==
    IF i > Len(e) THEN <<>>
    ELSE Replacement(e[i]) \o q[i + 1] \o SplicedFrom(q, e, i + 1)

(* C18: for a template literal of quasis q0..qn and expressions e1..en,    *)
(* extractStringValue returns q0 + r(e1) + q1 + ... + r(en) + qn, r(e)     *)
(* being ":"+name for a bare identifier and ":param" for any other         *)
(* expression; a string literal resolves to its value, any other node to   *)
(* null.                                                                   *)
C18_TemplateReconstruction ==
    Returned("extractStringValue") =>
        LET node == utilCall.args[1]
        IN IF node.type = "TemplateLiteral"
           THEN returned = node.quasis[1] \o SplicedFrom(node.quasis, node.expressions, 1)
           ELSE IF node.type = "StringLiteral" THEN returned = node.value
           ELSE returned = Null

\* `/${a}/${req.id}` has resolved to "/:a/:param"
C18_Witness ==
    /\ Returned("extractStringValue")
    /\ utilCall.args[1] =
           Tmpl(<<<<"/">>, <<"/">>, <<>>>>, <<Id("a"), Member(Id("req"), "id")>>)
    /\ returned = <<"/", ":", "a", "/", ":", "p", "a", "r", "a", "m">>

\* the names of a chain whose root is an identifier, root first, joined by "."
RECURSIVE Dotted(_)
Dotted(node) ==
    IF node.type = "Identifier" THEN node.name
    ELSE Dotted(node.object) \o "." \o node.property.name

\* the results that say a name could not be resolved
UnresolvedNames == {"unknown", "anonymous", NoName, ""}

(* C19: the name of a chained member access is its names in root-to-leaf   *)
(* order joined by "." when the root of the chain is an identifier, and an *)
(* unresolved result, never a partial name, when the chain bottoms out on  *)
(* anything else (this.x.y, f().x).                                        *)
C19_QualifiedName ==
    (Returned("extractName") /\ utilCall.args[1].type = "MemberExpression") =>
        IF RootIsIdentifier(utilCall.args[1])
        THEN returned = Dotted(utilCall.args[1])
        ELSE returned \in UnresolvedNames

(* C20: with autoRefresh enabled, every file event is in the end followed  *)
(* by a scan that read the workspace after the event and whose routes are  *)
(* set in the tree and CodeLens providers: once the events stop and the    *)
(* running scans finish, the routes shown are those of the workspace as it *)
(* is: an event after which no other comes is followed by a state in      *)
(* which the routes shown were read after it (said of the events short of  *)
(* the last the model allows, so that it is the user who stops).           *)
C20_EventuallyFresh ==
    \A e \in 1..(MaxEvents - 1) : (disk = e) ~> (shown >= e \/ disk > e)

\* an argument that can be a handler: a function literal, an arrow function,
\* an identifier or a member access
Qualifies(arg) ==
    arg.type \in {"FunctionExpression", "ArrowFunctionExpression", "Identifier",
                  "MemberExpression"}

\* the position, counted from 1, of the argument C23 names; the path is at 1
TerminalHandler(args) ==
    IF \E i \in 2..Len(args) : Qualifies(args[i])
    THEN CHOOSE i \in 2..Len(args) :
             Qualifies(args[i]) /\ \A j \in (i + 1)..Len(args) : ~Qualifies(args[j])
    ELSE Len(args)

(* C23: the handler of an Express route is the name of the argument with   *)
(* the greatest index >= 1 that is a function literal, an arrow function,  *)
(* an identifier or a member access, and of the last argument if none is;  *)
(* a call with only a path has handler "unknown", and the path is never    *)
(* chosen while another argument qualifies.                                *)
C23_HandlerSelection ==
    \A r \in ExpressRoutes :
        LET args == r.source.arguments
        IN /\ r.handler = extractName(args[TerminalHandler(args)])
           /\ Len(args) = 1 => r.handler = "unknown"
           /\ (\E i \in 2..Len(args) : Qualifies(args[i])) => TerminalHandler(args) > 1

\* app.post('/a/:b', auth, h, {}) has the handler h, not the object literal
C23_Witness ==
    /\ ExpressParsed
    /\ Len(file.calls) = 1
    /\ file.calls[1].arguments = <<Str(SamplePath), Id("auth"), Id("h"), Obj>>
    /\ Len(expressResult.routes) = 1
    /\ expressResult.routes[1].handler = "h"

\* the kinds of argument C24 names, an array holding only such
RECURSIVE IsNamedKind(_)
IsNamedKind(arg) ==
    \/ Qualifies(arg)
    \/ arg.type = "ArrayExpression" /\ \A i \in 1..Len(arg.elements) : IsNamedKind(arg.elements[i])

\* what one argument contributes: its name, or those of its elements
RECURSIVE Contribution(_)
Contribution(arg) ==
    IF arg.type = "ArrayExpression"
    THEN Flatten([i \in 1..Len(arg.elements) |-> Contribution(arg.elements[i])])
    ELSE <<extractName(arg)>>

(* C24: every argument strictly between the path and the handler           *)
(* contributes to middleware in argument order: an identifier its name, a  *)
(* member access its dotted name, a function literal its name ("anonymous" *)
(* when it has none), an array literal each of its elements; and           *)
(* middleware is absent exactly when there are no such arguments (said of  *)
(* the routes whose handler is the last argument).                         *)
C24_MiddlewareContributions ==
    \A r \in ExpressRoutes :
        LET args == r.source.arguments
            between == [i \in 1..(Len(args) - 2) |-> args[i + 1]]
        IN (TerminalHandler(args) = Len(args) /\ \A i \in 1..Len(between) : IsNamedKind(between[i])) =>
               /\ MiddlewareList(r) = Flatten([i \in 1..Len(between) |-> Contribution(between[i])])
               /\ ("middleware" \in DOMAIN r) <=> (between # <<>>)

(* C22: exclusion is honoured for every configured pattern: no file whose  *)
(* path matches any entry of excludePatterns, the first or another, is     *)
(* returned by findFiles, and each remaining file is returned at most once *)
(* even when several include patterns match it.                            *)
C22_ExcludeAll ==
    Returned("findFiles") =>
        /\ \A f \in Range(returned) : \A p \in Range(utilCall.args[3]) :
               ~GlobMatches(p, f)
        /\ \A i, j \in 1..Len(returned) : returned[i] = returned[j] => i = j

----------------------------------------------------------------------------
(* The tree, the scans of the extension and the request panel.             *)

UnderOneNode(nodes, r1, r2) ==
    \E n \in 1..Len(nodes) : r1 \in Range(nodes[n].routes) /\ r2 \in Range(nodes[n].routes)

\* C21: grouped by file, two routes of the filtered list are under the same
\* group node exactly when they have the same filePath, and the group nodes
\* partition the filtered list.
C21_FileGroups ==
    groupMode = "file" =>
        LET nodes == getRootNodes(treeRoutes, groupMode, filterMethod)
            filtered == Range(FilteredRoutes(treeRoutes, filterMethod))
        IN  /\ \A r1, r2 \in filtered :
                  UnderOneNode(nodes, r1, r2) <=> r1.filePath = r2.filePath
            /\ \A r \in filtered :
                  Cardinality({n \in 1..Len(nodes) : r \in Range(nodes[n].routes)}) = 1
            /\ \A n \in 1..Len(nodes) : Range(nodes[n].routes) \subseteq filtered

\* the calls of WorkspaceScanner.scanWorkspace that have not settled
ScansInProgress == (IF pc = "scanStarted" THEN 1 ELSE 0) + directScans

\* C25: at any time at most one scan of the workspace is in progress,
\* whatever triggers come and in whatever order.
C25_OneScan == ScansInProgress <= 1

\* C26: at most one debounce timer is pending, and every burst of file
\* events has either its one timer pending and no scanWorkspace call made
\* for it yet, or exactly one scanWorkspace call made for it.
C26_Debounce ==
    /\ pendingTimers <= 1
    /\ timerCalls + pendingTimers = bursts

C26_Witness == disk = 3 /\ bursts = 1 /\ timerCalls = 1 /\ pendingTimers = 0

\* C27: a scanWorkspace that has set isScanning sets it back to false,
\* whether the scan resolves or rejects, and the timer's call of
\* scanWorkspace when no scan is running starts a scan.
C27_GuardReleased ==
    /\ isScanning ~> ~isScanning
    /\ [][(timerCalls' # timerCalls /\ ~isScanning) => (isScanning' /\ pc' = "scanStarted")]_vars

C27_Witness == statusText = "Scan failed" /\ ~isScanning /\ pc = "noScan" /\ timerCalls > 0

\* C28: no message is posted to the webview of a disposed panel, and a
\* response is posted only for a request sent for the route the panel
\* displays.
C28_PanelLifecycle ==
    lastPost.command # "none" =>
        /\ ~lastPost.disposed
        /\ lastPost.command = "response" => lastPost.route = lastPost.displayed

LensCount == Len(Flatten([n \in 1..Len(lensRoutes) |-> lensRoutes[n].routes]))

ProvidersAgree ==
    /\ \A n \in 1..Len(lensRoutes) : \A r \in Range(lensRoutes[n].routes) :
          r \in Range(treeRoutes) /\ r.filePath = lensRoutes[n].key
    /\ \A r \in Range(treeRoutes) : \E n \in 1..Len(lensRoutes) : r \in Range(lensRoutes[n].routes)
    /\ LensCount = Len(treeRoutes)

\* C29: the tree and the CodeLens map hold the same routes; a scan that
\* succeeds sets both to its result, and a scan that fails or is skipped
\* leaves the routes of both, the group mode and the method filter as they
\* were.
C29_ProvidersAgree ==
    /\ []ProvidersAgree
    /\ [][(pc = "filesRead" /\ pc' = "noScan") =>
              (treeRoutes' = WorkspaceRoutes(snapshot) /\ LensCount' = Len(WorkspaceRoutes(snapshot)))]_vars
    /\ [][((pc = "scanStarted" /\ pc' = "noScan") \/ (timerCalls' # timerCalls /\ isScanning)) =>
              UNCHANGED providerVars]_vars

C29_Witness ==
    /\ statusText = "Scan failed"
    /\ shown = 3
    /\ treeRoutes = WorkspaceRoutes(3)
    /\ Len(lensRoutes) = 2

====
